---- MODULE Spec2Model ----
(***************************************************************************)
(* A model of clinical_note_miner.pipeline.BatchProcessor.                 *)
(*                                                                         *)
(*   Spec      the batch dispatcher: process_batch driving one asyncio     *)
(*             task per submitted note, the tasks contending for the       *)
(*             semaphore and appending to the result ledger.               *)
(*   SpecNote  one process_note call in full: chunk planning, the retrying *)
(*             requester, response parsing, merging and the ledger write.  *)
(*   SpecLoad  BatchProcessor.__init__ reading an existing ledger file.    *)
(*   SpecPlan  the chunk planning of process_note on its own.              *)
(*   SpecMatch matcher.find_matches over short texts and queries.          *)
(*   SpecSync  process_batch_sync: the background thread running the       *)
(*             dispatcher, the hand-off queue and the polling consumer.    *)
(*                                                                         *)
(* asyncio runs one coroutine at a time, so a step of the model is the     *)
(* code between two suspension points (await / yield).                     *)
(***************************************************************************)
EXTENDS Integers, Sequences, FiniteSets, TLC

\* ------------------------------------------------------------------ bounds
MaxParallel == 2      \* max_parallel_requests ranges over 1..MaxParallel
MaxNotes == 3         \* longest input stream
MaxRetries == 2       \* max_retries ranges over 0..MaxRetries
MaxTargets == 2       \* longest explicit element_names list
MaxCap == 2           \* max_elements_per_request ranges over 0..MaxCap (0: unset)
MaxLines == 2         \* longest ledger file __init__ reads
MaxSyncNotes == 2     \* longest notes list given to process_batch_sync
MaxPlanTargets == 4   \* longest target list given to the chunk planning alone
MaxPlanCap == 3       \* largest max_elements_per_request given to it
MaxTextLen == 4       \* longest text given to find_matches (but for TumorText)
MaxQueryLen == 2      \* longest query given to it (but for TumorQuery)
MaxEdits == 2         \* largest fuzzy_config["errors"]

\* `await asyncio.sleep(1 * attempts)`: the delay per failed attempt.
BaseDelay == 1

Ids == {"A", "B"}
Fields == {"a", "b"}

VARIABLES
    \* ---- BatchProcessor configuration and the ledger file
    max_parallel_requests,  \* C, the argument of asyncio.Semaphore
    file_output,            \* output_file and enable_file_output
    completed_ids,          \* self.completed_ids
    ledger,                 \* the records of output_file, in file order
    \* ---- process_batch
    notes,                  \* the input stream: a sequence of note ids
    cursor,                 \* position of the next note the async for pulls
    pc,                     \* where process_batch is suspended
    pending_tasks,          \* pending_tasks
    done,                   \* the done set of asyncio.wait still being yielded
    yielded,                \* the results yielded so far (by task)
    \* ---- the tasks created by process_batch (task t processes notes[t])
    sem_value,              \* self.semaphore._value
    task_state,             \* "none" | "created" | "running" | "in_call" | "done" | "raised"
                            \* | "cancelled"
    \* ---- history of a process_batch run
    completion,             \* the tasks that returned a result, in order of return
    wait_log,               \* the done sets asyncio.wait returned, in order
    \* ---- __init__ reading the ledger file (SpecLoad)
    file_lines,             \* the lines of output_file as found by __init__
    file_exists,            \* whether output_file exists
    ctor_pc,                \* "init" | "reading" | "constructed" | "failed"
    ctor_pos,               \* the line the jsonlines reader is at
    \* ---- process_batch_sync (SpecSync)
    stop_event,             \* stop_event.is_set()
    result_queue,           \* result_queue, oldest message first
    handed,                 \* results of process_batch that async_wrapper has taken
    bg_pc,                  \* the background thread: "off" | "iterating" | "finishing"
                            \* | "teardown" | "gathering" | "dead"
    cons_pc,                \* the consumer: "off" | "polling" | "timed_out" | "joining"
                            \* | "ended" | "raised" | "interrupt_join"
                            \* | "interrupted" | "interrupted_alive"
    received,               \* the results handed to the caller, in order
    \* ---- find_matches (SpecMatch)
    text,                   \* text, a sequence of characters
    query,                  \* query, a sequence of characters
    fuzzy_config,           \* fuzzy_config["errors"], or -1 when the key is absent
    scan_pos,               \* where regex.finditer goes on searching
    matches,                \* matches: the [start, end] found, then sorted
    match_pc,               \* "off" | "called" | "scanning" | "returned"
    \* ---- _post_process_extraction (SpecField)
    raw_extraction,         \* raw_extraction: field name -> the payload's value
    post_names,             \* its element_names argument
    post_schema,            \* schema.elements: field name -> its two flags
    processed_extraction,   \* processed_extraction, once returned
    post_pc,                \* "off" | "called" | "returned" | "raised"
    \* ---- one process_note call (SpecNote)
    schema_elements,        \* schema.elements keys, in dict order
    element_names,          \* the element_names argument (<<>>: None or empty)
    max_elements_per_request,
    max_retries,
    include_chunk_details,  \* the constructor's four chunk-detail switches
    chunk_reasoning,
    chunk_metrics,
    include_raw_response,
    client_usage,           \* the client's results carry a non-empty "usage"
    client_reasoning,       \* ... and a non-empty "reasoning_content"
    note_pc,                \* "idle" | "calling" | "sleeping" | "returned" | "raised"
                            \* | "planned" (SpecPlan: the chunks are computed)
    chunks,                 \* chunks
    chunk_i,                \* index of the chunk being requested (1-based)
    attempts,               \* _call_llm_with_retry: attempts
    errors,                 \* _call_llm_with_retry: errors
    calls,                  \* generation calls made by the current requester call
    ok_calls,               \* ... of which the client answered success
    sleeps,                 \* the delays of its asyncio.sleep calls so far, in order
    kinds,                  \* how each failed attempt failed (SpecRetry only)
    cancel_sent,            \* cancel() was called on the extraction's task (SpecCancel only)
    dispatcher,             \* 1: the BatchProcessor constructed first; 2: a later one
                            \* constructed on the ledger the first left (SpecRerun only)
    requests,               \* what each requester call returned, in order
    merged_extraction,      \* merged_extraction
    all_errors,             \* all_errors
    overall_success,        \* overall_success
    chunks_info,            \* chunks_info
    output                  \* the DocumentResult returned (<<>> until then)

configVars == <<max_parallel_requests, file_output, completed_ids>>
batchVars == <<notes, cursor, pc, pending_tasks, done, yielded>>
taskVars == <<sem_value, task_state>>
historyVars == <<completion, wait_log>>
ctorVars == <<file_lines, file_exists, ctor_pc, ctor_pos>>
bridgeVars == <<stop_event, result_queue, handed, bg_pc, cons_pc, received>>
matchVars == <<text, query, fuzzy_config, scan_pos, matches, match_pc>>
postVars == <<raw_extraction, post_names, post_schema, processed_extraction, post_pc>>
noteConfig == <<schema_elements, element_names, max_elements_per_request, max_retries,
                include_chunk_details, chunk_reasoning, chunk_metrics,
                include_raw_response, client_usage, client_reasoning>>
retryVars == <<attempts, errors, calls, ok_calls, sleeps>>
noteVars == <<note_pc, chunks, chunk_i, requests, merged_extraction, all_errors,
              overall_success, chunks_info, output>>
vars == <<configVars, ledger, batchVars, taskVars, historyVars, ctorVars, bridgeVars,
         matchVars, postVars, dispatcher, noteConfig, retryVars, kinds, cancel_sent,
         noteVars>>

\* ----------------------------------------------------------------- helpers
Range(s) == {s[k] : k \in 1..Len(s)}

SeqsUpTo(S, n) == UNION {[1..k -> S] : k \in 0..n}

RECURSIVE SetToSeq(_)
SetToSeq(S) == IF S = {} THEN <<>>
               ELSE LET x == CHOOSE y \in S : TRUE IN <<x>> \o SetToSeq(S \ {x})

EmptyMap == [f \in {} |-> 0]

Min(a, b) == IF a <= b THEN a ELSE b

\* A ledger record: the id of the DocumentResult and the task that wrote it
\* (task 0: a record of an earlier run).
Record(id, t) == [id |-> id, task |-> t]

\* ------------------------------------------------------- __init__, ledger
\* The ledger files an earlier run can have left: one record per id of a set.
PriorLedgers == {[k \in 1..Len(SetToSeq(S)) |-> Record(SetToSeq(S)[k], 0)] : S \in SUBSET Ids}

\* _load_completed_ids: the ids of the records of the file.
LoadCompletedIds(file) == {file[k].id : k \in 1..Len(file)}

SemaphoreInit_OneMore(c) == c + 1

\* asyncio.Semaphore(max_parallel_requests): the initial number of permits.
SemaphoreInit(c) == c

\* BatchProcessor.__init__ over the file `prior`: overwrite clears the file,
\* otherwise its ids are loaded; without file output the file is not touched.
Construct(prior, fo, overwrite) ==
    /\ file_output = fo
    /\ ledger = IF fo /\ overwrite THEN <<>> ELSE prior
    /\ completed_ids = IF fo /\ ~overwrite THEN LoadCompletedIds(prior) ELSE {}
    /\ sem_value = SemaphoreInit(max_parallel_requests)

LedgerAfter_NoWrite(led, rec) == led

LedgerAfter_Truncate(led, rec) == IF file_output THEN <<rec>> ELSE led

\* process_note's ledger write: one record appended when file output is on.
LedgerAfter(led, rec) == IF file_output THEN Append(led, rec) ELSE led

\* The constructor has run over a well-formed ledger (Construct).
CtorDone ==
    /\ file_lines = <<>>
    /\ file_exists = TRUE
    /\ ctor_pc = "constructed"
    /\ ctor_pos = 0

\* process_batch_sync is not in use: process_batch is consumed directly.
BridgeOff ==
    /\ stop_event = FALSE
    /\ result_queue = <<>>
    /\ handed = 0
    /\ bg_pc = "off"
    /\ cons_pc = "off"
    /\ received = <<>>

\* find_matches is not being called.
MatchOff ==
    /\ text = <<>>
    /\ query = <<>>
    /\ fuzzy_config = -1
    /\ scan_pos = 0
    /\ matches = <<>>
    /\ match_pc = "off"

\* _post_process_extraction is not being called on its own.
PostOff ==
    /\ raw_extraction = EmptyMap
    /\ post_names = <<>>
    /\ post_schema = EmptyMap
    /\ processed_extraction = EmptyMap
    /\ post_pc = "off"

\* The constructor's defaults for the chunk details, with a client that
\* reports its token usage and its reasoning.
DetailDefaults ==
    /\ include_chunk_details = TRUE
    /\ chunk_reasoning = TRUE
    /\ chunk_metrics = TRUE
    /\ include_raw_response = TRUE
    /\ client_usage = TRUE
    /\ client_reasoning = TRUE

\* The process_note variables while no process_note call is modelled in full.
NoteIdle ==
    /\ schema_elements = <<>>
    /\ element_names = <<>>
    /\ max_elements_per_request = 0
    /\ max_retries = 0
    /\ DetailDefaults
    /\ note_pc = "idle"
    /\ chunks = <<>>
    /\ chunk_i = 0
    /\ attempts = 0
    /\ errors = <<>>
    /\ calls = 0
    /\ ok_calls = 0
    /\ sleeps = <<>>
    /\ kinds = <<>>
    /\ cancel_sent = FALSE
    /\ requests = <<>>
    /\ merged_extraction = EmptyMap
    /\ all_errors = <<>>
    /\ overall_success = TRUE
    /\ chunks_info = <<>>
    /\ output = <<>>

\* ------------------------------------------------------------ process_batch
Tasks == 1..Len(notes)

Init ==
    /\ max_parallel_requests \in 1..MaxParallel
    /\ \E prior \in PriorLedgers, fo \in BOOLEAN, overwrite \in BOOLEAN :
          /\ (~fo => prior = <<>> /\ ~overwrite)
          /\ Construct(prior, fo, overwrite)
    /\ notes \in SeqsUpTo(Ids, MaxNotes)
    /\ cursor = 1
    /\ pc = "pull"
    /\ pending_tasks = {}
    /\ done = {}
    /\ yielded = <<>>
    /\ task_state = [t \in 1..Len(notes) |-> "none"]
    /\ completion = <<>>
    /\ wait_log = <<>>
    /\ CtorDone
    /\ BridgeOff
    /\ MatchOff
    /\ PostOff
    /\ dispatcher = 1
    /\ NoteIdle

IsCompleted_Never(id) == FALSE

\* `if note_id in self.completed_ids`
IsCompleted(id) == id \in completed_ids

ShouldWait_Strict(n) == n > sem_value * 2

\* `if len(pending_tasks) >= self.semaphore._value * 2`
ShouldWait(n) == n >= sem_value * 2

AfterInput_NoDrain(p) == "finished"

\* `while pending_tasks:` after the input ended (and after each drained batch)
AfterInput(p) == IF p = {} THEN "finished" ELSE "drain_wait"

Finished_OnlyLast(S) ==
    LET F == {t \in S : task_state[t] \in {"done", "raised"}}
    IN  {t \in F : \A u \in F : u <= t}

\* The done set of asyncio.wait: every task of S that has finished.
Finished(S) == {t \in S : task_state[t] \in {"done", "raised"}}

AfterYield_OnlyFirst(rest) ==
    IF pc = "yield" THEN "pull" ELSE AfterInput(pending_tasks)

\* `for t in done:` goes on while tasks of done are left (rest), then back to
\* the async for, or to the `while pending_tasks:` test of the drain loop.
AfterYield(rest) ==
    IF rest # {} THEN pc
    ELSE IF pc = "yield" THEN "pull" ELSE AfterInput(pending_tasks)

CompletedAfter_Add(ids, id) == ids \cup {id}

\* self.completed_ids once process_note has written the record of id: no
\* statement touches the set after __init__.
CompletedAfter(ids, id) == ids

\* The async for pulls a note whose id is in completed_ids: skipped.
PullSkip ==
    /\ pc = "pull"
    /\ cursor <= Len(notes)
    /\ IsCompleted(notes[cursor])
    /\ cursor' = cursor + 1
    /\ UNCHANGED <<matchVars, postVars, dispatcher, kinds, cancel_sent, configVars, ctorVars, bridgeVars, historyVars, ledger, notes, pc, pending_tasks, done, yielded,
                   taskVars, noteConfig, retryVars, noteVars>>

\* The async for pulls a note, creates its task and tests the back-pressure
\* threshold (no suspension point in between).
PullSubmit ==
    /\ pc = "pull"
    /\ cursor <= Len(notes)
    /\ ~IsCompleted(notes[cursor])
    /\ task_state' = [task_state EXCEPT ![cursor] = "created"]
    /\ pending_tasks' = pending_tasks \cup {cursor}
    /\ cursor' = cursor + 1
    /\ pc' = IF ShouldWait(Cardinality(pending_tasks')) THEN "wait" ELSE "pull"
    /\ UNCHANGED <<matchVars, postVars, dispatcher, kinds, cancel_sent, configVars, ctorVars, bridgeVars, historyVars, ledger, notes, done, yielded, sem_value,
                   noteConfig, retryVars, noteVars>>

\* The input is exhausted: on to the drain loop.
PullEnd ==
    /\ pc = "pull"
    /\ cursor > Len(notes)
    /\ pc' = AfterInput(pending_tasks)
    /\ UNCHANGED <<matchVars, postVars, dispatcher, kinds, cancel_sent, configVars, ctorVars, bridgeVars, historyVars, ledger, notes, cursor, pending_tasks, done, yielded,
                   taskVars, noteConfig, retryVars, noteVars>>

\* asyncio.wait(pending_tasks, return_when=FIRST_COMPLETED) returns: done is
\* every task finished by now, pending_tasks the rest.
WaitFirstCompleted ==
    /\ pc \in {"wait", "drain_wait"}
    /\ Finished(pending_tasks) # {}
    /\ done' = Finished(pending_tasks)
    /\ pending_tasks' = pending_tasks \ Finished(pending_tasks)
    /\ pc' = IF pc = "wait" THEN "yield" ELSE "drain_yield"
    /\ wait_log' = Append(wait_log, Finished(pending_tasks))
    /\ UNCHANGED <<matchVars, postVars, dispatcher, kinds, cancel_sent, configVars, ctorVars, bridgeVars, completion, ledger, notes, cursor,
                   yielded, taskVars, noteConfig, retryVars, noteVars>>

\* `for t in done: yield await t`, one task of done: its result is yielded.
YieldResult ==
    /\ pc \in {"yield", "drain_yield"}
    /\ \E t \in done :
          /\ task_state[t] = "done"
          /\ yielded' = Append(yielded, t)
          /\ done' = done \ {t}
          /\ pc' = AfterYield(done')
    /\ UNCHANGED <<matchVars, postVars, dispatcher, kinds, cancel_sent, configVars, ctorVars, bridgeVars, historyVars, ledger, notes, cursor, pending_tasks, taskVars,
                   noteConfig, retryVars, noteVars>>

\* `yield await t` of a task that raised: the exception leaves process_batch.
YieldRaises ==
    /\ pc \in {"yield", "drain_yield"}
    /\ \E t \in done : task_state[t] = "raised"
    /\ pc' = "raised"
    /\ UNCHANGED <<matchVars, postVars, dispatcher, kinds, cancel_sent, configVars, ctorVars, bridgeVars, historyVars, ledger, notes, cursor, pending_tasks, done, yielded,
                   taskVars, noteConfig, retryVars, noteVars>>

\* ------------------------------------------- the tasks (process_note, coarse)
\* `async with self.semaphore`: a permit is taken when one is free.
TaskAcquire(t) ==
    /\ task_state[t] = "created"
    /\ sem_value > 0
    /\ sem_value' = sem_value - 1
    /\ task_state' = [task_state EXCEPT ![t] = "running"]
    /\ UNCHANGED <<matchVars, postVars, dispatcher, kinds, cancel_sent, configVars, ctorVars, bridgeVars, historyVars, ledger, batchVars, noteConfig, retryVars, noteVars>>

\* The running extraction issues a generation call (a suspension point).
TaskCall(t) ==
    /\ task_state[t] = "running"
    /\ task_state' = [task_state EXCEPT ![t] = "in_call"]
    /\ UNCHANGED <<matchVars, postVars, dispatcher, kinds, cancel_sent, configVars, ctorVars, bridgeVars, historyVars, ledger, batchVars, sem_value, noteConfig, retryVars, noteVars>>

\* The generation call comes back to the extraction.
TaskCallEnds(t) ==
    /\ task_state[t] = "in_call"
    /\ task_state' = [task_state EXCEPT ![t] = "running"]
    /\ UNCHANGED <<matchVars, postVars, dispatcher, kinds, cancel_sent, configVars, ctorVars, bridgeVars, historyVars, ledger, batchVars, sem_value, noteConfig, retryVars, noteVars>>

\* process_note returns: the ledger write, then the permit is released.
TaskReturn(t) ==
    /\ task_state[t] = "running"
    /\ ledger' = LedgerAfter(ledger, Record(notes[t], t))
    /\ sem_value' = sem_value + 1
    /\ task_state' = [task_state EXCEPT ![t] = "done"]
    /\ completion' = Append(completion, t)
    /\ completed_ids' = CompletedAfter(completed_ids, notes[t])
    /\ UNCHANGED <<matchVars, postVars, dispatcher, kinds, cancel_sent, max_parallel_requests, file_output, ctorVars, bridgeVars, wait_log,
                   batchVars, noteConfig, retryVars, noteVars>>

TaskRaise_KeepsPermit(t) ==
    /\ task_state[t] = "running"
    /\ sem_value' = sem_value
    /\ task_state' = [task_state EXCEPT ![t] = "raised"]
    /\ UNCHANGED <<matchVars, postVars, dispatcher, kinds, cancel_sent, configVars, ctorVars, bridgeVars, historyVars, ledger, batchVars, noteConfig, retryVars, noteVars>>

\* process_note raises: no ledger write, the permit is released.
TaskRaise(t) ==
    /\ task_state[t] = "running"
    /\ sem_value' = sem_value + 1
    /\ task_state' = [task_state EXCEPT ![t] = "raised"]
    /\ UNCHANGED <<matchVars, postVars, dispatcher, kinds, cancel_sent, configVars, ctorVars, bridgeVars, historyVars, ledger, batchVars, noteConfig, retryVars, noteVars>>

Next ==
    \/ PullSkip
    \/ PullSubmit
    \/ PullEnd
    \/ WaitFirstCompleted
    \/ YieldResult
    \/ YieldRaises
    \/ \E t \in Tasks : TaskAcquire(t)
    \/ \E t \in Tasks : TaskCall(t)
    \/ \E t \in Tasks : TaskCallEnds(t)
    \/ \E t \in Tasks : TaskReturn(t)
    \/ \E t \in Tasks : TaskRaise(t)

Spec == Init /\ [][Next]_vars

\* ------------------------------------------------------------- process_note
NoteId == "A"

\* `element_names if element_names else list(self.schema.elements.keys())`
TargetElements == IF element_names # <<>> THEN element_names ELSE schema_elements

\* `for i in range(0, len(target_elements), cap): chunks.append(target[i:i+cap])`
RECURSIVE ChunksFrom(_, _, _)
ChunksFrom(targets, cap, i) ==
    IF i >= Len(targets) THEN <<>>
    ELSE <<SubSeq(targets, i + 1, Min(i + cap, Len(targets)))>>
         \o ChunksFrom(targets, cap, i + cap)

PlanChunks_OneChunk(targets, cap) == <<targets>>

\* The chunk planning of process_note: one chunk when the cap is unset or <= 0.
PlanChunks(targets, cap) == IF cap > 0 THEN ChunksFrom(targets, cap, 0) ELSE <<targets>>

\* What a successful chat_completion result can carry: no "message" at all,
\* content that is not JSON, JSON that is a number, or a JSON object holding
\* the fields of a set (the empty object included).
Payloads ==
    {[kind |-> k, fields |-> {}] : k \in {"nomessage", "badjson", "number"}}
    \cup {[kind |-> "object", fields |-> S] : S \in SUBSET Fields}

NoPayload == [kind |-> "none", fields |-> {}]

\* _parse_response: json.loads succeeds on the content.
JsonLoads(p) == p.kind \in {"number", "object"}

\* `if raw_extraction:` -- Python truth of the parsed value.
Truthy(p) == p.kind = "number" \/ (p.kind = "object" /\ p.fields # {})

\* _post_process_extraction raises TypeError at `el_name in raw_extraction`
\* when the parsed value is a number and a chunk element is in the schema.
PostProcessRaises(p, chunk) ==
    p.kind = "number" /\ Range(chunk) \cap Range(schema_elements) # {}

PostProcess_Nothing(p, chunk, c) == EmptyMap

\* _post_process_extraction: an entry for every chunk element the schema
\* defines and the parsed object holds (c: the chunk that supplied it).
PostProcess(p, chunk, c) ==
    [f \in (Range(chunk) \cap Range(schema_elements)) \cap p.fields |-> [answer |-> c]]

Merge_Replace(m, processed) == processed

\* merged_extraction.update(processed)
Merge(m, processed) ==
    [f \in DOMAIN m \cup DOMAIN processed |->
        IF f \in DOMAIN processed THEN processed[f] ELSE m[f]]

BackoffDelay_Constant(n) == BaseDelay

\* `await asyncio.sleep(1 * attempts)` after the n-th failed attempt.
BackoffDelay(n) == BaseDelay * n

KeepTrying_OneLess(n) == n < max_retries

\* `while attempts <= self.max_retries` / `if attempts <= self.max_retries`
KeepTrying(n) == n <= max_retries

RecordError_NotIfRaised(errs, n, exc) == IF exc THEN errs ELSE Append(errs, [attempt |-> n + 1])

\* errors.append(f"Attempt {attempts + 1}: ...") on either path (exc: the
\* except branch). An entry is kept as its attempt label; the text after the
\* label is the client's own and is left out.
RecordError(errs, n, exc) == Append(errs, [attempt |-> n + 1])

SuccessReturn_NoErrors(result, errs) == [success |-> TRUE, payload |-> result, errors |-> <<>>]

\* `return {"success": True, "result": result, "errors": errors}`
SuccessReturn(result, errs) == [success |-> TRUE, payload |-> result, errors |-> errs]

FailureReturn_NoErrors(errs) == [success |-> FALSE, payload |-> NoPayload, errors |-> <<>>]

\* `return {"success": False, "errors": errors}`
FailureReturn(errs) == [success |-> FALSE, payload |-> NoPayload, errors |-> errs]

\* `output = {...}`; the "chunks" key is there only with include_chunk_details
\* (has_chunks), and chunks is <<>> without it.
DocumentResult(extraction, errs, ok, info) ==
    [id |-> NoteId, extraction |-> extraction, errors |-> errs, success |-> ok,
     has_chunks |-> include_chunk_details,
     chunks |-> IF include_chunk_details THEN info ELSE <<>>]

ReturnOutput_LedgerIfOk(extraction, errs, ok, info) ==
    /\ output' = DocumentResult(extraction, errs, ok, info)
    /\ ledger' = IF ok THEN LedgerAfter(ledger, Record(NoteId, 1)) ELSE ledger
    /\ sem_value' = sem_value + 1
    /\ note_pc' = "returned"

\* The DocumentResult is built, written to the ledger and returned; the
\* `async with` block ends and gives the permit back.
ReturnOutput(extraction, errs, ok, info) ==
    /\ output' = DocumentResult(extraction, errs, ok, info)
    /\ ledger' = LedgerAfter(ledger, Record(NoteId, 1))
    /\ sem_value' = sem_value + 1
    /\ note_pc' = "returned"

NextChunk_Skip(i) == i + 2

\* `for i, chunk in enumerate(chunks)`: the chunk after chunk i.
NextChunk(i) == i + 1

ChunkKeys_All(success, parsed) == {"latency", "usage", "raw_response", "reasoning", "error"}

\* The keys chunk_data has besides chunk_index, elements and success, for a
\* request that ended in success (with a payload that parsed or did not) or
\* in failure.
ChunkKeys(success, parsed) ==
    IF success
    THEN {"latency"}
         \cup (IF client_usage /\ chunk_metrics THEN {"usage"} ELSE {})
         \cup (IF include_raw_response THEN {"raw_response"} ELSE {})
         \cup (IF chunk_reasoning /\ client_reasoning THEN {"reasoning"} ELSE {})
         \cup (IF parsed THEN {} ELSE {"error"})
    ELSE {"error"}

\* The loop body of process_note once _call_llm_with_retry returned rr for
\* chunk chunk_i (after ncalls generation calls, nok of them successful), and
\* then the next chunk's request or the end of process_note.
HandleRetryResult(rr, ncalls, nok) ==
    LET chunk == chunks[chunk_i]
        errs1 == all_errors \o rr.errors
        raises == rr.success /\ (rr.payload.kind = "nomessage"
                                 \/ PostProcessRaises(rr.payload, chunk))
        parsed == rr.success /\ Truthy(rr.payload)
        error_msg == IF ~rr.success THEN <<[chunk |-> chunk_i, what |-> "max_retries"]>>
                     ELSE IF ~parsed THEN <<[chunk |-> chunk_i, what |-> "parse"]>>
                     ELSE <<>>
        chunk_data == [chunk_index |-> chunk_i - 1, elements |-> chunk,
                       success |-> rr.success, raw_response |-> rr.payload,
                       error |-> error_msg, keys |-> ChunkKeys(rr.success, parsed)]
        merged == IF parsed THEN Merge(merged_extraction, PostProcess(rr.payload, chunk, chunk_i))
                  ELSE merged_extraction
        errs2 == errs1 \o error_msg
        ok == overall_success /\ parsed
        info == Append(chunks_info, chunk_data)
    IN  /\ requests' = Append(requests, [chunk |-> chunk_i, success |-> rr.success,
                                         payload |-> rr.payload, errors |-> rr.errors,
                                         calls |-> ncalls, ok_calls |-> nok,
                                         sleeps |-> sleeps])
        /\ IF raises
           THEN /\ note_pc' = "raised"
                /\ all_errors' = errs1
                /\ sem_value' = sem_value + 1
                /\ UNCHANGED <<merged_extraction, overall_success, chunks_info, chunk_i,
                               output, ledger>>
           ELSE /\ merged_extraction' = merged
                /\ all_errors' = errs2
                /\ overall_success' = ok
                /\ chunks_info' = info
                /\ IF chunk_i < Len(chunks)
                   THEN /\ chunk_i' = NextChunk(chunk_i)
                        /\ note_pc' = "calling"
                        /\ UNCHANGED <<output, ledger, sem_value>>
                   ELSE /\ ReturnOutput(merged, errs2, ok, info)
                        /\ UNCHANGED chunk_i

\* A fresh _call_llm_with_retry call.
RequesterFresh ==
    attempts' = 0 /\ errors' = <<>> /\ calls' = 0 /\ ok_calls' = 0 /\ sleeps' = <<>>

InitNote ==
    /\ max_parallel_requests = 1
    /\ \E fo \in BOOLEAN : Construct(<<>>, fo, FALSE)
    /\ notes = <<>>
    /\ cursor = 1
    /\ pc = "pull"
    /\ pending_tasks = {}
    /\ done = {}
    /\ yielded = <<>>
    /\ task_state = <<>>
    /\ completion = <<>>
    /\ wait_log = <<>>
    /\ CtorDone
    /\ BridgeOff
    /\ MatchOff
    /\ PostOff
    /\ dispatcher = 1
    /\ schema_elements \in {s \in SeqsUpTo(Fields, Cardinality(Fields)) :
                              \A j, k \in 1..Len(s) : j # k => s[j] # s[k]}
    /\ element_names \in SeqsUpTo(Fields, MaxTargets)
    /\ max_elements_per_request \in 0..MaxCap
    /\ max_retries \in 0..MaxRetries
    /\ DetailDefaults
    /\ note_pc = "idle"
    /\ chunks = <<>>
    /\ chunk_i = 0
    /\ attempts = 0
    /\ errors = <<>>
    /\ calls = 0
    /\ ok_calls = 0
    /\ sleeps = <<>>
    /\ kinds = <<>>
    /\ cancel_sent = FALSE
    /\ requests = <<>>
    /\ merged_extraction = EmptyMap
    /\ all_errors = <<>>
    /\ overall_success = TRUE
    /\ chunks_info = <<>>
    /\ output = <<>>

\* process_note up to its first suspension point: the permit, the chunk plan,
\* and the first chunk's generation call (or, with no chunk, the return).
ProcessNote ==
    /\ note_pc = "idle"
    /\ sem_value > 0
    /\ chunks' = PlanChunks(TargetElements, max_elements_per_request)
    /\ IF chunks' = <<>>
       THEN /\ LET s == sem_value - 1 IN
               /\ output' = DocumentResult(EmptyMap, <<>>, TRUE, <<>>)
               /\ ledger' = LedgerAfter(ledger, Record(NoteId, 1))
               /\ sem_value' = s + 1
               /\ note_pc' = "returned"
            /\ UNCHANGED chunk_i
       ELSE /\ chunk_i' = 1
            /\ note_pc' = "calling"
            /\ sem_value' = sem_value - 1
            /\ UNCHANGED <<output, ledger>>
    /\ UNCHANGED <<matchVars, postVars, dispatcher, kinds, cancel_sent, configVars, ctorVars, bridgeVars, historyVars, batchVars, task_state, noteConfig, retryVars, requests,
                   merged_extraction, all_errors, overall_success, chunks_info>>

\* chat_completion answers success with payload p: the requester returns at
\* once and process_note handles the chunk.
ClientSucceeds(p) ==
    /\ note_pc = "calling"
    /\ HandleRetryResult(SuccessReturn(p, errors), calls + 1, ok_calls + 1)
    /\ IF note_pc' = "calling" THEN RequesterFresh
       ELSE /\ calls' = calls + 1
            /\ ok_calls' = ok_calls + 1
            /\ UNCHANGED <<attempts, errors, sleeps>>
    /\ UNCHANGED <<matchVars, postVars, dispatcher, kinds, cancel_sent, configVars, ctorVars, bridgeVars, historyVars, batchVars, task_state, noteConfig, chunks>>

\* An attempt fails (exc: chat_completion raised, else it answered failure):
\* the error is recorded and either the backoff sleep starts or the requester
\* gives up and process_note handles the failed chunk.
AttemptFailed(exc) ==
    /\ note_pc = "calling"
    /\ LET errs == RecordError(errors, attempts, exc)
           n == attempts + 1
       IN IF KeepTrying(n)
          THEN /\ attempts' = n
               /\ errors' = errs
               /\ calls' = calls + 1
               /\ sleeps' = Append(sleeps, BackoffDelay(n))
               /\ note_pc' = "sleeping"
               /\ UNCHANGED <<ok_calls, ledger, sem_value, chunk_i, requests,
                              merged_extraction, all_errors, overall_success,
                              chunks_info, output>>
          ELSE /\ HandleRetryResult(FailureReturn(errs), calls + 1, ok_calls)
               /\ IF note_pc' = "calling" THEN RequesterFresh
                  ELSE /\ attempts' = n
                       /\ errors' = errs
                       /\ calls' = calls + 1
                       /\ UNCHANGED <<ok_calls, sleeps>>
    /\ UNCHANGED <<matchVars, postVars, dispatcher, configVars, ctorVars, bridgeVars, historyVars, batchVars, task_state, noteConfig, chunks>>

\* chat_completion returns {"success": False, "error": ...}
ClientFails == AttemptFailed(FALSE) /\ UNCHANGED <<kinds, cancel_sent>>

\* chat_completion raises an exception
ClientRaises == AttemptFailed(TRUE) /\ UNCHANGED <<kinds, cancel_sent>>

\* `await asyncio.sleep(1 * attempts)` is over: the next attempt is made.
BackoffElapsed ==
    /\ note_pc = "sleeping"
    /\ note_pc' = "calling"
    /\ UNCHANGED <<matchVars, postVars, dispatcher, kinds, cancel_sent, configVars, ctorVars, bridgeVars, historyVars, ledger, batchVars, taskVars, noteConfig, retryVars,
                   chunks, chunk_i, requests, merged_extraction, all_errors,
                   overall_success, chunks_info, output>>

NextNote ==
    \/ ProcessNote
    \/ \E p \in Payloads : ClientSucceeds(p)
    \/ ClientFails
    \/ ClientRaises
    \/ BackoffElapsed

SpecNote == InitNote /\ [][NextNote]_vars

\* ------------------------------------------------------------ properties
\* The extractions inside `async with self.semaphore`.
Holders == {t \in Tasks : task_state[t] \in {"running", "in_call"}}

\* The notes of the input whose id is in completed_ids.
Skipped == {t \in Tasks : IsCompleted(notes[t])}

\* C1: at every instant at most C = max_parallel_requests process_note
\* invocations hold a permit of the semaphore.
C1_PermitBound == Cardinality(Holders) <= max_parallel_requests

\* All C permits are held while a further submitted task waits for one.
C1_Witness ==
    /\ max_parallel_requests = 2
    /\ Cardinality(Holders) = 2
    /\ \E t \in Tasks : task_state[t] = "created"

\* C2: the submitted tasks whose results are not yet yielded (pending_tasks, and
\* the done batch being yielded) never number more than 2C, and whenever
\* process_batch is about to pull from the input fewer than 2C are outstanding.
C2_PendingBound ==
    /\ Cardinality(pending_tasks \cup done) <= 2 * max_parallel_requests
    /\ pc = "pull" => Cardinality(pending_tasks \cup done) < 2 * max_parallel_requests

\* 2C tasks are outstanding and process_batch waits instead of pulling, with
\* more input left.
C2_Witness ==
    /\ pc = "wait"
    /\ Cardinality(pending_tasks) = 2 * max_parallel_requests
    /\ cursor <= Len(notes)

\* C3: a note whose id is in completed_ids is never submitted: it has no task,
\* makes no generation call, writes no record and is never yielded; an input
\* fully covered by the ledger yields nothing and calls nothing; with A in the
\* ledger, the input A, B yields exactly one result, the one of B.
C3_SkippedNeverSubmitted ==
    /\ \A t \in Skipped :
          /\ task_state[t] = "none"
          /\ t \notin pending_tasks \cup done
          /\ t \notin Range(yielded)
          /\ \A k \in 1..Len(ledger) : ledger[k].task # t
    /\ Skipped = Tasks => yielded = <<>> /\ \A t \in Tasks : task_state[t] = "none"
    /\ (pc = "finished" /\ notes = <<"A", "B">> /\ completed_ids = {"A"})
          => yielded = <<2>>

\* The run over A, B with A in the ledger has finished with B's result.
C3_Witness ==
    /\ pc = "finished"
    /\ notes = <<"A", "B">>
    /\ completed_ids = {"A"}
    /\ yielded = <<2>>
    /\ cursor = 3

\* C4: when process_batch finishes, it has yielded exactly one result for
\* every input note that was not skipped, and none for any other.
C4_ExactlyOnce ==
    pc = "finished" =>
        /\ Range(yielded) = Tasks \ Skipped
        /\ Len(yielded) = Cardinality(Tasks \ Skipped)

\* A finished run that skipped a note and yielded more than one result, two
\* of them out of submission order.
C4_Witness ==
    /\ pc = "finished"
    /\ Skipped # {}
    /\ Len(yielded) >= 2
    /\ yielded[1] > yielded[2]

\* C5: with file output on, every result already yielded has its record in
\* the ledger.
C5_LedgerBeforeYield ==
    file_output =>
        \A k \in 1..Len(yielded) :
            \E j \in 1..Len(ledger) : ledger[j] = Record(notes[yielded[k]], yielded[k])

\* A result has been yielded with file output on, while another extraction
\* is still running.
C5_Witness ==
    /\ file_output
    /\ Len(yielded) >= 1
    /\ Holders # {}

\* The requester calls that returned so far.
Returned == {requests[k] : k \in 1..Len(requests)}

\* The fields a chunk's parsed response contributes to the extraction.
ProducedFields(r) ==
    (Range(chunks[r.chunk]) \cap Range(schema_elements)) \cap r.payload.fields

\* C6: whatever the generation client does, process_note never raises.
C6_NeverRaises == note_pc # "raised"

\* C7: process_note returns success = true iff every chunk's request succeeded
\* and every chunk's payload parsed (json.loads accepted it), a valid empty
\* object included.
C7_SuccessIffAllParsed ==
    note_pc = "returned" =>
        (output.success <=> \A r \in Returned : r.success /\ JsonLoads(r.payload))

\* C8: the extraction is the union of the fields of the chunks whose response
\* parsed, whatever happened to the other chunks: while process_note runs and
\* in the result it returns, also when that result is marked failed.
C8_ExtractionIsUnion ==
    LET parsed == {r \in Returned : r.success /\ JsonLoads(r.payload)}
        union == UNION {ProducedFields(r) : r \in parsed}
    IN  /\ note_pc \in {"calling", "sleeping", "returned"} =>
              /\ DOMAIN merged_extraction = union
              /\ \A f \in DOMAIN merged_extraction :
                    \E r \in parsed : /\ r.chunk = merged_extraction[f].answer
                                      /\ f \in ProducedFields(r)
        /\ note_pc = "returned" => output.extraction = merged_extraction

\* A returned, failed document of two chunks whose first chunk exhausted its
\* retries and whose second chunk parsed and contributed a field.
C8_Witness ==
    /\ note_pc = "returned"
    /\ ~output.success
    /\ Len(requests) = 2
    /\ ~requests[1].success
    /\ requests[2].success
    /\ DOMAIN output.extraction # {}

\* C9: a requester call whose client fails f <= max_retries times and then
\* succeeds makes exactly f + 1 generation calls and returns success with
\* exactly f error entries (attempts 1..f); no call follows the successful one.
C9_SuccessAfterFailures ==
    /\ \A r \in Returned :
          /\ r.ok_calls >= 1 =>
                /\ r.success
                /\ r.ok_calls = 1
                /\ r.calls = Len(r.errors) + 1
                /\ r.calls <= max_retries + 1
                /\ \A j \in 1..Len(r.errors) : r.errors[j].attempt = j
          /\ ~r.success => r.ok_calls = 0 /\ r.calls = max_retries + 1
    /\ note_pc \in {"calling", "sleeping"} => ok_calls = 0

\* A requester call that succeeded on its last permitted attempt, after
\* max_retries = 2 failures.
C9_Witness ==
    /\ max_retries = 2
    /\ \E r \in Returned : r.success /\ Len(r.errors) = 2 /\ r.calls = 3

\* C10: a requester call whose client fails every attempt makes exactly
\* max_retries + 1 generation calls, never more, and returns failure with
\* exactly max_retries + 1 error entries; it never returns failure earlier.
C10_ExhaustedAfterAllAttempts ==
    /\ calls <= max_retries + 1
    /\ \A r \in Returned :
          /\ r.calls <= max_retries + 1
          /\ r.ok_calls = 0 =>
                /\ ~r.success
                /\ r.calls = max_retries + 1
                /\ Len(r.errors) = max_retries + 1
          /\ ~r.success => r.calls = max_retries + 1 /\ Len(r.errors) = max_retries + 1

\* A requester call that gave up after max_retries + 1 = 3 failed attempts.
C10_Witness ==
    /\ max_retries = 2
    /\ \E r \in Returned : ~r.success /\ r.calls = 3 /\ Len(r.errors) = 3

\* --------------------------------------------- properties of a process_batch run
\* The submitted tasks that have not finished.
Unfinished == {t \in Tasks : task_state[t] \in {"created", "running", "in_call"}}

\* The tasks that finished and whose outcome process_batch has not consumed.
Unyielded == Finished(pending_tasks) \cup done

\* The position of task t in the order of return, and the asyncio.wait call
\* that returned it.
CompletionPos(t) == CHOOSE c \in 1..Len(completion) : completion[c] = t
WaitOf(t) == CHOOSE k \in 1..Len(wait_log) : t \in wait_log[k]

\* C14: process_batch has terminated only with no submitted task left in
\* pending_tasks and none still unfinished.
C14_TerminatesOnlyWhenEmpty ==
    pc \in {"finished", "raised"} => pending_tasks = {} /\ Unfinished = {}

\* C15 as stated: no document is pulled from the input while a finished
\* task's result has not been yielded.
C15_NoPullWhileUnyielded ==
    [][cursor' # cursor => Unyielded = {}]_vars

\* C15 amended: the tasks one asyncio.wait returned are all consumed before
\* the next document is pulled.
C15_DoneSetYieldedBeforePull ==
    pc = "pull" => done = {}

\* A done set of two tasks has been yielded in full and the dispatcher is
\* back at the input with documents left.
C15_Witness ==
    /\ pc = "pull"
    /\ cursor <= Len(notes)
    /\ wait_log # <<>>
    /\ Cardinality(wait_log[Len(wait_log)]) >= 2
    /\ wait_log[Len(wait_log)] \subseteq Range(yielded)

\* C16 as stated: of two yielded results, the one whose extraction returned
\* first is yielded first.
C16_CompletionOrder ==
    \A i, j \in 1..Len(yielded) :
        CompletionPos(yielded[i]) < CompletionPos(yielded[j]) => i < j

\* C16 amended: when Y's result is yielded, every extraction that returned
\* before Y's and was not handed over by the same asyncio.wait as Y has had
\* its result yielded already.
C16_CompletionOrderAcrossWaits ==
    \A j \in 1..Len(yielded) :
        \A c \in 1..Len(completion) :
            (/\ c < CompletionPos(yielded[j])
             /\ completion[c] \notin wait_log[WaitOf(yielded[j])])
            => \E i \in 1..(j - 1) : yielded[i] = completion[c]

\* Two results yielded against submission order: the later-submitted one
\* returned first and came out of an earlier asyncio.wait.
C16_Witness ==
    \E i, j \in 1..Len(yielded) :
        /\ i < j
        /\ yielded[i] > yielded[j]
        /\ CompletionPos(yielded[i]) < CompletionPos(yielded[j])
        /\ WaitOf(yielded[i]) # WaitOf(yielded[j])

\* C19: no step of a run changes completed_ids.
C19_CompletedIdsFrozen ==
    [][completed_ids' = completed_ids]_vars

\* A document was completed, recorded and yielded, and a later document with
\* the same id was submitted all the same.
C19_Witness ==
    /\ file_output
    /\ \E t, u \in Tasks :
        /\ t < u
        /\ notes[t] = notes[u]
        /\ t \in Range(yielded)
        /\ \E k \in 1..Len(ledger) : ledger[k] = Record(notes[t], t)
        /\ task_state[u] # "none"

\* C20: a step leaves the ledger as it is or appends the one whole record of
\* the one extraction that returns in that step; with file output on, every
\* returning extraction appends its record.
C20_WholeRecordAppends ==
    [][/\ \/ ledger' = ledger
          \/ \E t \in Tasks :
                /\ task_state[t] # "done"
                /\ task_state'[t] = "done"
                /\ \A u \in Tasks \ {t} : task_state'[u] = task_state[u]
                /\ ledger' = Append(ledger, Record(notes[t], t))
       /\ \A t \in Tasks :
            (file_output /\ task_state[t] # "done" /\ task_state'[t] = "done")
            => ledger' = Append(ledger, Record(notes[t], t))]_vars

\* Two records of this run follow a record of an earlier run while another
\* extraction is still running.
C20_Witness ==
    /\ file_output
    /\ Len(ledger) >= 3
    /\ ledger[1].task = 0
    /\ ledger[Len(ledger) - 1].task # 0
    /\ ledger[Len(ledger)].task # 0
    /\ Holders # {}

\* ------------------------------------------- properties of one process_note call
\* C17: the requester calls of a document are made chunk by chunk in order:
\* the k-th call that returned was for chunk k and returned a final outcome
\* (a success, or a failure after max_retries + 1 generation calls), and while
\* a generation call or a backoff is outstanding it is for the chunk right
\* after the ones whose outcome is known.
C17_ChunksInOrder ==
    /\ \A k \in 1..Len(requests) :
          /\ requests[k].chunk = k
          /\ requests[k].success \/ requests[k].calls = max_retries + 1
    /\ note_pc \in {"calling", "sleeping"} =>
          /\ chunk_i = Len(requests) + 1
          /\ chunk_i <= Len(chunks)

\* The first chunk failed after retries and the second chunk's generation
\* call is outstanding.
C17_Witness ==
    /\ note_pc = "calling"
    /\ chunk_i = 2
    /\ max_retries >= 1
    /\ ~requests[1].success

\* --------------------------------------------- __init__ over any ledger file
\* What a line of the file can hold: a record with an "id", a record without
\* one, text that is not JSON (the jsonlines reader raises InvalidLineError),
\* or JSON that is not an object, such as a number (`"id" in obj` raises
\* TypeError).
Lines ==
    [kind : {"record"}, id : Ids]
        \cup {[kind |-> k, id |-> "-"] : k \in {"noid", "badjson", "number"}}

\* `for obj in reader: if "id" in obj:` raises on this line.
LineRaises(line) == line.kind \in {"badjson", "number"}

\* What _load_completed_ids catches of the exceptions a line can raise:
\* `except FileNotFoundError` covers none of them.
CaughtWhileLoading(line) == FALSE

\* `if "id" in obj: self.completed_ids.add(obj["id"])`
AddLine(ids, line) == IF line.kind = "record" THEN ids \cup {line.id} ELSE ids

InitLoad ==
    /\ max_parallel_requests = 1
    /\ file_output \in BOOLEAN
    /\ completed_ids = {}
    /\ sem_value = SemaphoreInit(max_parallel_requests)
    /\ ledger = <<>>
    /\ notes = <<>>
    /\ cursor = 1
    /\ pc = "pull"
    /\ pending_tasks = {}
    /\ done = {}
    /\ yielded = <<>>
    /\ task_state = <<>>
    /\ completion = <<>>
    /\ wait_log = <<>>
    /\ file_exists \in BOOLEAN
    /\ file_lines \in (IF file_exists THEN SeqsUpTo(Lines, MaxLines) ELSE {<<>>})
    /\ ctor_pc = "init"
    /\ ctor_pos = 0
    /\ BridgeOff
    /\ MatchOff
    /\ PostOff
    /\ dispatcher = 1
    /\ NoteIdle

\* __init__ up to the ledger: overwrite truncates (or creates) the file,
\* otherwise _load_completed_ids opens it; FileNotFoundError is caught.
CtorBegin(overwrite) ==
    /\ ctor_pc = "init"
    /\ IF ~file_output
       THEN ctor_pc' = "constructed" /\ UNCHANGED <<file_lines, file_exists, ctor_pos>>
       ELSE IF overwrite
       THEN /\ ctor_pc' = "constructed"
            /\ file_lines' = <<>>
            /\ file_exists' = TRUE
            /\ UNCHANGED ctor_pos
       ELSE IF ~file_exists
       THEN ctor_pc' = "constructed" /\ UNCHANGED <<file_lines, file_exists, ctor_pos>>
       ELSE /\ ctor_pc' = "reading"
            /\ ctor_pos' = 1
            /\ UNCHANGED <<file_lines, file_exists>>
    /\ UNCHANGED <<matchVars, postVars, dispatcher, kinds, cancel_sent, configVars, ledger, batchVars, taskVars, historyVars, bridgeVars,
                   noteConfig, retryVars, noteVars>>

\* One turn of `for obj in reader`.
ReadLine ==
    /\ ctor_pc = "reading"
    /\ ctor_pos <= Len(file_lines)
    /\ LET line == file_lines[ctor_pos]
       IN  IF LineRaises(line)
           THEN /\ ctor_pc' = IF CaughtWhileLoading(line) THEN "constructed" ELSE "failed"
                /\ UNCHANGED <<completed_ids, ctor_pos>>
           ELSE /\ completed_ids' = AddLine(completed_ids, line)
                /\ ctor_pos' = ctor_pos + 1
                /\ UNCHANGED ctor_pc
    /\ UNCHANGED <<matchVars, postVars, dispatcher, kinds, cancel_sent, max_parallel_requests, file_output, file_lines, file_exists, ledger,
                   batchVars, taskVars, historyVars, bridgeVars, noteConfig, retryVars,
                   noteVars>>

\* The reader is exhausted: __init__ returns.
ReadEnd ==
    /\ ctor_pc = "reading"
    /\ ctor_pos > Len(file_lines)
    /\ ctor_pc' = "constructed"
    /\ UNCHANGED <<matchVars, postVars, dispatcher, kinds, cancel_sent, configVars, file_lines, file_exists, ctor_pos, ledger, batchVars,
                   taskVars, historyVars, bridgeVars, noteConfig, retryVars, noteVars>>

NextLoad ==
    \/ \E overwrite \in BOOLEAN : CtorBegin(overwrite)
    \/ ReadLine
    \/ ReadEnd

SpecLoad == InitLoad /\ [][NextLoad]_vars

\* C18: constructing the dispatcher never fails, whatever the ledger file
\* holds.
C18_ConstructionNeverFails ==
    ctor_pc # "failed"

\* -------------------------------------------------------- process_batch_sync
\* Two threads: the background thread runs an event loop with async_wrapper
\* (which iterates process_batch) and the extraction tasks; the caller's
\* thread polls result_queue.  The threads interleave at every access to the
\* queue, the stop event and the thread's liveness.
Msg(type, payload) == [type |-> type, payload |-> payload]

InitSync ==
    /\ max_parallel_requests \in 1..MaxParallel
    /\ \E prior \in PriorLedgers : Construct(prior, TRUE, FALSE)
    /\ notes \in SeqsUpTo(Ids, MaxSyncNotes)
    /\ cursor = 1
    /\ pc = "pull"
    /\ pending_tasks = {}
    /\ done = {}
    /\ yielded = <<>>
    /\ task_state = [t \in 1..Len(notes) |-> "none"]
    /\ completion = <<>>
    /\ wait_log = <<>>
    /\ CtorDone
    /\ stop_event = FALSE
    /\ result_queue = <<>>
    /\ handed = 0
    /\ bg_pc = "iterating"
    /\ cons_pc = "polling"
    /\ received = <<>>
    /\ MatchOff
    /\ PostOff
    /\ dispatcher = 1
    /\ NoteIdle

\* async_wrapper is inside `async for result in self.process_batch(...)` and
\* has put every result yielded so far: process_batch runs on.
WrapperIterating == bg_pc = "iterating" /\ handed = Len(yielded)

\* process_batch is suspended in an await: in async_gen's asyncio.sleep(0)
\* or in asyncio.wait.  Only then do the tasks and timer callbacks run.
WrapperSuspended == WrapperIterating /\ pc \in {"pull", "wait", "drain_wait"}

\* async_gen hands out the next note unless the stop event is set.
SyncPullSkip == WrapperIterating /\ ~stop_event /\ PullSkip
SyncPullSubmit == WrapperIterating /\ ~stop_event /\ PullSubmit
SyncPullEnd == WrapperIterating /\ ~stop_event /\ PullEnd

\* async_gen: `if stop_event.is_set(): break` ends the input early.
SyncPullStopped ==
    /\ WrapperIterating
    /\ stop_event
    /\ pc = "pull"
    /\ pc' = AfterInput(pending_tasks)
    /\ UNCHANGED <<matchVars, postVars, dispatcher, kinds, cancel_sent, configVars, ctorVars, bridgeVars, historyVars, ledger, notes, cursor,
                   pending_tasks, done, yielded, taskVars, noteConfig, retryVars,
                   noteVars>>

SyncWait == WrapperIterating /\ WaitFirstCompleted
SyncYield == WrapperIterating /\ YieldResult
SyncYieldRaises == WrapperIterating /\ YieldRaises

\* The extraction tasks run while the event loop is inside
\* run_until_complete(task) and async_wrapper is suspended.
SyncTaskAcquire(t) == WrapperSuspended /\ TaskAcquire(t)
SyncTaskCall(t) == WrapperSuspended /\ TaskCall(t)
SyncTaskCallEnds(t) == WrapperSuspended /\ TaskCallEnds(t)
SyncTaskReturn(t) == WrapperSuspended /\ TaskReturn(t)
SyncTaskRaise(t) == WrapperSuspended /\ TaskRaise(t)

\* The body of the async for, for one result: leave the loop when the stop
\* event is set (the finally clause puts "done"), else put the item.
WrapperItem ==
    /\ bg_pc = "iterating"
    /\ handed < Len(yielded)
    /\ IF stop_event
       THEN /\ result_queue' = Append(result_queue, Msg("done", 0))
            /\ bg_pc' = "teardown"
            /\ UNCHANGED handed
       ELSE /\ result_queue' = Append(result_queue, Msg("item", yielded[handed + 1]))
            /\ handed' = handed + 1
            /\ UNCHANGED bg_pc
    /\ UNCHANGED <<matchVars, postVars, dispatcher, kinds, cancel_sent, configVars, ctorVars, historyVars, ledger, batchVars, taskVars,
                   stop_event, cons_pc, received, noteConfig, retryVars, noteVars>>

\* async_wrapper without its finally clause: after the error nothing more
\* is put and the wrapper is over.
WrapperError_SkipsDone ==
    /\ WrapperIterating
    /\ pc = "raised"
    /\ result_queue' = Append(result_queue, Msg("error", 0))
    /\ bg_pc' = "teardown"
    /\ UNCHANGED <<matchVars, postVars, dispatcher, kinds, cancel_sent, configVars, ctorVars, historyVars, ledger, batchVars, taskVars,
                   stop_event, handed, cons_pc, received, noteConfig, retryVars, noteVars>>

\* process_batch raised: `except Exception as e: result_queue.put(("error", e))`.
WrapperError ==
    /\ WrapperIterating
    /\ pc = "raised"
    /\ result_queue' = Append(result_queue, Msg("error", 0))
    /\ bg_pc' = "finishing"
    /\ UNCHANGED <<matchVars, postVars, dispatcher, kinds, cancel_sent, configVars, ctorVars, historyVars, ledger, batchVars, taskVars,
                   stop_event, handed, cons_pc, received, noteConfig, retryVars, noteVars>>

\* `finally: result_queue.put(("done", None))` after process_batch ended, or
\* after the error was put; async_wrapper is over.
WrapperDone ==
    /\ \/ WrapperIterating /\ pc = "finished"
       \/ bg_pc = "finishing"
    /\ result_queue' = Append(result_queue, Msg("done", 0))
    /\ bg_pc' = "teardown"
    /\ UNCHANGED <<matchVars, postVars, dispatcher, kinds, cancel_sent, configVars, ctorVars, historyVars, ledger, batchVars, taskVars,
                   stop_event, handed, cons_pc, received, noteConfig, retryVars, noteVars>>

\* check_stop finds the stop event set and cancels async_wrapper's task:
\* CancelledError goes through process_batch into async_wrapper, which
\* swallows it and puts "done".
CheckStop ==
    /\ WrapperSuspended
    /\ stop_event
    /\ pc' = "cancelled"
    /\ result_queue' = Append(result_queue, Msg("done", 0))
    /\ bg_pc' = "teardown"
    /\ UNCHANGED <<matchVars, postVars, dispatcher, kinds, cancel_sent, configVars, ctorVars, historyVars, ledger, notes, cursor, pending_tasks,
                   done, yielded, taskVars, stop_event, handed, cons_pc, received,
                   noteConfig, retryVars, noteVars>>

\* run_until_complete(task) returned: `for p in pending: p.cancel()`, then
\* the loop runs gather(*pending) to let the tasks clean up.
Teardown ==
    /\ bg_pc = "teardown"
    /\ bg_pc' = "gathering"
    /\ UNCHANGED <<matchVars, postVars, dispatcher, kinds, cancel_sent, configVars, ctorVars, historyVars, ledger, batchVars, taskVars,
                   stop_event, result_queue, handed, cons_pc, received, noteConfig,
                   retryVars, noteVars>>

\* A cancelled extraction ends: CancelledError leaves process_note (no
\* ledger write), releasing the permit if it held one.
TaskCancelled(t) ==
    /\ bg_pc = "gathering"
    /\ t \in Unfinished
    /\ task_state' = [task_state EXCEPT ![t] = "cancelled"]
    /\ sem_value' = IF t \in Holders THEN sem_value + 1 ELSE sem_value
    /\ UNCHANGED <<matchVars, postVars, dispatcher, kinds, cancel_sent, configVars, ctorVars, historyVars, ledger, batchVars, bridgeVars,
                   noteConfig, retryVars, noteVars>>

\* gather returned: loop.close(), run_async_loop returns, the thread ends.
ThreadExit ==
    /\ bg_pc = "gathering"
    /\ Unfinished = {}
    /\ bg_pc' = "dead"
    /\ UNCHANGED <<matchVars, postVars, dispatcher, kinds, cancel_sent, configVars, ctorVars, historyVars, ledger, batchVars, taskVars,
                   stop_event, result_queue, handed, cons_pc, received, noteConfig,
                   retryVars, noteVars>>

\* ------------------------------------------------- the consumer's thread
\* result_queue.get(timeout=0.1) returns a message: an item is yielded to the
\* caller, an error is raised, "done" leaves the loop for the final t.join().
ConsumerGet ==
    /\ cons_pc = "polling"
    /\ result_queue # <<>>
    /\ result_queue' = Tail(result_queue)
    /\ LET msg == Head(result_queue)
       IN  /\ received' = IF msg.type = "item" THEN Append(received, msg.payload)
                          ELSE received
           /\ cons_pc' = IF msg.type = "item" THEN "polling"
                         ELSE IF msg.type = "error" THEN "raised"
                         ELSE "joining"
    /\ UNCHANGED <<matchVars, postVars, dispatcher, kinds, cancel_sent, configVars, ctorVars, historyVars, ledger, batchVars, taskVars,
                   stop_event, handed, bg_pc, noteConfig, retryVars, noteVars>>

\* The get times out on an empty queue: queue.Empty is raised.
ConsumerTimeout ==
    /\ cons_pc = "polling"
    /\ result_queue = <<>>
    /\ cons_pc' = "timed_out"
    /\ UNCHANGED <<matchVars, postVars, dispatcher, kinds, cancel_sent, configVars, ctorVars, historyVars, ledger, batchVars, taskVars,
                   stop_event, result_queue, handed, bg_pc, received, noteConfig,
                   retryVars, noteVars>>

\* `except queue.Empty: if not t.is_alive(): break` and `continue`.
AfterEmpty(alive) == IF alive THEN "polling" ELSE "joining"

ConsumerCheckAlive ==
    /\ cons_pc = "timed_out"
    /\ cons_pc' = AfterEmpty(bg_pc # "dead")
    /\ UNCHANGED <<matchVars, postVars, dispatcher, kinds, cancel_sent, configVars, ctorVars, historyVars, ledger, batchVars, taskVars,
                   stop_event, result_queue, handed, bg_pc, received, noteConfig,
                   retryVars, noteVars>>

\* The final t.join() returns and the generator ends normally.
ConsumerJoin ==
    /\ cons_pc = "joining"
    /\ bg_pc = "dead"
    /\ cons_pc' = "ended"
    /\ UNCHANGED <<matchVars, postVars, dispatcher, kinds, cancel_sent, configVars, ctorVars, historyVars, ledger, batchVars, taskVars,
                   stop_event, result_queue, handed, bg_pc, received, noteConfig,
                   retryVars, noteVars>>

\* KeyboardInterrupt inside the polling loop: `stop_event.set()`.
Interrupt ==
    /\ cons_pc \in {"polling", "timed_out"}
    /\ stop_event' = TRUE
    /\ cons_pc' = "interrupt_join"
    /\ UNCHANGED <<matchVars, postVars, dispatcher, kinds, cancel_sent, configVars, ctorVars, historyVars, ledger, batchVars, taskVars,
                   result_queue, handed, bg_pc, received, noteConfig, retryVars,
                   noteVars>>

ThreadJoined_Any == TRUE

\* t.join(timeout=5.0) returns because the thread ended.
ThreadJoined == bg_pc = "dead"

\* `t.join(timeout=5.0); raise` with the thread over in time.
InterruptJoined ==
    /\ cons_pc = "interrupt_join"
    /\ ThreadJoined
    /\ cons_pc' = "interrupted"
    /\ UNCHANGED <<matchVars, postVars, dispatcher, kinds, cancel_sent, configVars, ctorVars, historyVars, ledger, batchVars, taskVars,
                   stop_event, result_queue, handed, bg_pc, received, noteConfig,
                   retryVars, noteVars>>

\* t.join(timeout=5.0) gives up after 5 s: the cancelled tasks are still
\* cleaning up inside gather (check_stop itself reacts within 0.1 s).
InterruptJoinTimeout ==
    /\ cons_pc = "interrupt_join"
    /\ bg_pc = "gathering"
    /\ Unfinished # {}
    /\ cons_pc' = "interrupted_alive"
    /\ UNCHANGED <<matchVars, postVars, dispatcher, kinds, cancel_sent, configVars, ctorVars, historyVars, ledger, batchVars, taskVars,
                   stop_event, result_queue, handed, bg_pc, received, noteConfig,
                   retryVars, noteVars>>

NextSync ==
    \/ SyncPullSkip
    \/ SyncPullSubmit
    \/ SyncPullEnd
    \/ SyncPullStopped
    \/ SyncWait
    \/ SyncYield
    \/ SyncYieldRaises
    \/ \E t \in Tasks : SyncTaskAcquire(t)
    \/ \E t \in Tasks : SyncTaskCall(t)
    \/ \E t \in Tasks : SyncTaskCallEnds(t)
    \/ \E t \in Tasks : SyncTaskReturn(t)
    \/ \E t \in Tasks : SyncTaskRaise(t)
    \/ WrapperItem
    \/ WrapperError
    \/ WrapperDone
    \/ CheckStop
    \/ Teardown
    \/ \E t \in Tasks : TaskCancelled(t)
    \/ ThreadExit
    \/ ConsumerGet
    \/ ConsumerTimeout
    \/ ConsumerCheckAlive
    \/ ConsumerJoin
    \/ Interrupt
    \/ InterruptJoined
    \/ InterruptJoinTimeout

SpecSync == InitSync /\ [][NextSync]_vars

\* ------------------------------------------- properties of process_batch_sync
\* No extraction has raised.
NoFailure == \A t \in Tasks : task_state[t] # "raised"

\* C11: without interrupt and without failure, when the consumer's sequence
\* has ended the consumer has received every result process_batch yielded, in
\* order, one for each note that was not skipped.
C11_AllResultsHandedOver ==
    (cons_pc = "ended" /\ ~stop_event /\ NoFailure) =>
        /\ received = yielded
        /\ \A t \in Tasks \ Skipped :
              Cardinality({k \in 1..Len(received) : received[k] = t}) = 1

\* C12: the consumer's sequence does not end normally when process_batch
\* raised inside the background thread.
C12_FailureReraised ==
    cons_pc = "ended" => pc # "raised"

\* C13 as stated: when the interrupt is propagated to the caller the
\* background thread has ended and no extraction is unfinished.
C13_TornDownBeforePropagation ==
    cons_pc \in {"interrupted", "interrupted_alive"} =>
        stop_event /\ bg_pc = "dead" /\ Unfinished = {}

\* C13 amended: an interrupted consumer has set the stop event, and when the
\* interrupt is propagated after t.join(timeout=5.0) returned because the
\* thread ended, the thread has ended and no extraction is unfinished.
C13_TornDownWithinGrace ==
    /\ cons_pc \in {"interrupt_join", "interrupted", "interrupted_alive"} => stop_event
    /\ cons_pc = "interrupted" => bg_pc = "dead" /\ Unfinished = {}

\* The interrupt was propagated after the teardown cancelled an extraction
\* that was in a generation call.
C13_Witness ==
    /\ cons_pc = "interrupted"
    /\ \E t \in Tasks : task_state[t] = "cancelled"
    /\ sem_value = max_parallel_requests

\* ------------------------------------------------- the chunk planning alone
\* process_note's first lines over longer target lists than SpecNote walks:
\* the targets are resolved and split, and nothing else is run.
InitPlan ==
    /\ max_parallel_requests = 1
    /\ Construct(<<>>, FALSE, FALSE)
    /\ notes = <<>>
    /\ cursor = 1
    /\ pc = "pull"
    /\ pending_tasks = {}
    /\ done = {}
    /\ yielded = <<>>
    /\ task_state = <<>>
    /\ completion = <<>>
    /\ wait_log = <<>>
    /\ CtorDone
    /\ BridgeOff
    /\ MatchOff
    /\ PostOff
    /\ dispatcher = 1
    /\ schema_elements \in {s \in SeqsUpTo(Fields, Cardinality(Fields)) :
                              \A j, k \in 1..Len(s) : j # k => s[j] # s[k]}
    /\ element_names \in SeqsUpTo(Fields, MaxPlanTargets)
    /\ max_elements_per_request \in 0..MaxPlanCap
    /\ max_retries = 0
    /\ DetailDefaults
    /\ note_pc = "idle"
    /\ chunks = <<>>
    /\ chunk_i = 0
    /\ attempts = 0
    /\ errors = <<>>
    /\ calls = 0
    /\ ok_calls = 0
    /\ sleeps = <<>>
    /\ kinds = <<>>
    /\ cancel_sent = FALSE
    /\ requests = <<>>
    /\ merged_extraction = EmptyMap
    /\ all_errors = <<>>
    /\ overall_success = TRUE
    /\ chunks_info = <<>>
    /\ output = <<>>

\* `target_elements = ...` and the `chunks` of process_note are computed.
PlanOnly ==
    /\ note_pc = "idle"
    /\ chunks' = PlanChunks(TargetElements, max_elements_per_request)
    /\ note_pc' = "planned"
    /\ UNCHANGED <<matchVars, postVars, dispatcher, kinds, cancel_sent, configVars, ctorVars, bridgeVars, historyVars, ledger, batchVars,
                   taskVars, noteConfig, retryVars, chunk_i, requests,
                   merged_extraction, all_errors, overall_success, chunks_info, output>>

NextPlan == PlanOnly

SpecPlan == InitPlan /\ [][NextPlan]_vars

\* The chunks of a plan laid end to end.
RECURSIVE Flatten(_)
Flatten(cs) == IF cs = <<>> THEN <<>> ELSE Head(cs) \o Flatten(Tail(cs))

\* ceil(n / k) for k > 0.
Ceil(n, k) == (n + k - 1) \div k

\* C21: with a cap k > 0 the plan of n targets has ceil(n/k) chunks, each of
\* 1..k fields, and the chunks laid end to end are the target list.
C21_PlanPartitionsTargets ==
    (note_pc = "planned" /\ max_elements_per_request > 0) =>
        /\ Len(chunks) = Ceil(Len(TargetElements), max_elements_per_request)
        /\ \A c \in 1..Len(chunks) :
              Len(chunks[c]) \in 1..max_elements_per_request
        /\ Flatten(chunks) = TargetElements

\* Three targets with a field named twice, split by a cap of two: two chunks,
\* the last one smaller than the cap.
C21_Witness ==
    /\ note_pc = "planned"
    /\ max_elements_per_request = 2
    /\ element_names = <<"a", "b", "a">>
    /\ chunks = << <<"a", "b">>, <<"a">> >>

\* ----------------------------------- properties of process_note (continued)
\* The fields the prompt of a chunk names: build_user_message looks every
\* name up in the schema and leaves out the ones it does not define.
Requested(chunk) == Range(chunk) \cap Range(schema_elements)

\* The answer of a client that echoes back every field named in the prompt.
Echo(chunk) == [kind |-> "object", fields |-> Requested(chunk)]

\* Every generation call made so far succeeded with the echo of its chunk.
EchoRun ==
    \A k \in 1..Len(requests) :
        /\ requests[k].success
        /\ requests[k].errors = <<>>
        /\ requests[k].payload = Echo(chunks[k])

\* process_note made one generation call per chunk of the plan and returned
\* success with an extraction holding every target field.
EchoOutcome ==
    /\ note_pc = "returned"
    /\ Len(requests) = Len(chunks)
    /\ Len(chunks) = Ceil(Len(TargetElements), max_elements_per_request)
    /\ \A k \in 1..Len(requests) : requests[k].calls = 1
    /\ output.success
    /\ DOMAIN output.extraction = Range(TargetElements)

PartialFailure ==
    /\ note_pc = "returned"
    /\ Len(chunks) = 2
    /\ requests[1].success
    /\ Truthy(requests[1].payload)
    /\ ~requests[2].success

\* The entries of an error list that name a chunk (the "Attempt n: ..."
\* entries of the requester do not).
ChunkEntries(errs) == {k \in 1..Len(errs) : "chunk" \in DOMAIN errs[k]}

\* C23 as stated: the partial failure returns success = false, the fields of
\* chunk 1 only, and an error list of exactly one entry, which names chunk 2.
C23_OneErrorEntry ==
    PartialFailure =>
        /\ ~output.success
        /\ DOMAIN output.extraction = ProducedFields(requests[1])
        /\ Len(output.errors) = 1
        /\ ChunkEntries(output.errors) = {1}
        /\ output.errors[1].chunk = 2

\* C23 amended: the partial failure returns success = false, the fields of
\* chunk 1 only, and an error list made of the attempt errors of the two
\* requests (max_retries + 1 of them for chunk 2) followed by the one entry
\* that names a chunk, which is chunk 2's.
C23_OneChunkErrorEntry ==
    PartialFailure =>
        /\ ~output.success
        /\ DOMAIN output.extraction = ProducedFields(requests[1])
        /\ Len(requests[2].errors) = max_retries + 1
        /\ output.errors = requests[1].errors \o requests[2].errors
                              \o <<[chunk |-> 2, what |-> "max_retries"]>>
        /\ ChunkEntries(output.errors) = {Len(output.errors)}

\* A partial failure with one retry allowed: chunk 1 contributed a field and
\* the error list holds chunk 2's two attempt errors and its chunk entry.
C23_Witness ==
    /\ PartialFailure
    /\ max_retries = 1
    /\ ProducedFields(requests[1]) # {}
    /\ Len(output.errors) = 3

\* The delays of a linear backoff over n failed attempts.
LinearDelays(n) == [k \in 1..n |-> k * BaseDelay]

Chars == {"a", "b", "B"}
QueryChars == {"a", "b"}
TumorText == <<"t", "u", "m", "o", "r", " ", "s", "i", "z", "e", " ", "2", "5", "m", "m">>
TumorQuery == <<"t", "u", "m", "o", "r", " ", "s", "i", "z", " ", "2", "5", "m", "m">>

LongQuery == 10       \* a query longer than this is matched fuzzily by default
DefaultErrors == 2    \* with this many errors allowed

\* regex.IGNORECASE: a letter matches in either case.
Lower(c) == IF c = "A" THEN "a" ELSE IF c = "B" THEN "b" ELSE c

Abs(n) == IF n < 0 THEN 0 - n ELSE n

\* One row of the edit-distance table: cur holds the columns filled so far,
\* prev is the row above, c the character of this row.
RECURSIVE RowFrom(_, _, _, _)
RowFrom(prev, c, b, cur) ==
    IF Len(cur) = Len(b) + 1 THEN cur
    ELSE LET j == Len(cur)
             sub == prev[j] + (IF Lower(c) = Lower(b[j]) THEN 0 ELSE 1)
         IN  RowFrom(prev, c, b,
                     Append(cur, Min(Min(prev[j + 1] + 1, cur[j] + 1), sub)))

\* The edit-distance table, row after row: table holds the rows filled so
\* far, the first one for the empty prefix of a.
RECURSIVE Rows(_, _, _)
Rows(a, b, table) ==
    IF Len(table) = Len(a) + 1 THEN table
    ELSE LET i == Len(table)
         IN  Rows(a, b, Append(table, RowFrom(table[i], a[i], b, <<i>>)))

\* The least number of insertions, deletions and substitutions that turn a
\* into b, letters compared without case.
EditDistance(a, b) ==
    Rows(a, b, <<[j \in 1..(Len(b) + 1) |-> j - 1]>>)[Len(a) + 1][Len(b) + 1]

\* text[start:end]
Slice(t, start, end) == [k \in 1..(end - start) |-> t[start + k]]

FuzzyErrors_NeverFuzzy(q, cfg) == 0

\* errors: fuzzy_config['errors'] when given, else by the query's length.
FuzzyErrors(q, cfg) ==
    IF cfg # -1 THEN cfg
    ELSE IF Len(q) > LongQuery THEN DefaultErrors ELSE 0

\* The pattern matches text[start:end]: the escaped query itself when errors
\* errors is 0 (`if errors:` is false), else (query){e<=errors}.
PatternMatches(t, q, edits, start, end) ==
    IF edits = 0
    THEN /\ end - start = Len(q)
         /\ \A k \in 1..Len(q) : Lower(t[start + k]) = Lower(q[k])
    ELSE EditDistance(Slice(t, start, end), q) <= edits

\* Where a match that begins at start may end.
MatchEnds(t, q, edits, start) ==
    {end \in (start + 1)..Len(t) : PatternMatches(t, q, edits, start, end)}

\* The positions from pos on where a match can begin.
MatchStarts(t, q, edits, pos) ==
    {start \in pos..(Len(t) - 1) : MatchEnds(t, q, edits, start) # {}}

LeastOf(S) == CHOOSE x \in S : \A y \in S : x <= y

\* key=lambda m: abs(len(m['match_text']) - len(query))
SortKey(m, q) == Abs((m.end - m.start) - Len(q))

\* list.sort is stable: an element goes behind those of an equal key that
\* came before it.
InsertByKey_BeforeEqual(sorted, m, q) ==
    LET n == Cardinality({k \in 1..Len(sorted) : SortKey(sorted[k], q) < SortKey(m, q)})
    IN  SubSeq(sorted, 1, n) \o <<m>> \o SubSeq(sorted, n + 1, Len(sorted))

InsertByKey(sorted, m, q) ==
    LET n == Cardinality({k \in 1..Len(sorted) : SortKey(sorted[k], q) <= SortKey(m, q)})
    IN  SubSeq(sorted, 1, n) \o <<m>> \o SubSeq(sorted, n + 1, Len(sorted))

RECURSIVE SortedFrom(_, _, _, _)
SortedFrom(ms, q, k, sorted) ==
    IF k > Len(ms) THEN sorted
    ELSE SortedFrom(ms, q, k + 1, InsertByKey(sorted, ms[k], q))

\* matches.sort(key=...)
SortByKey(ms, q) == SortedFrom(ms, q, 1, <<>>)

\* find_matches is called.  The model gives it no error budget that would
\* let the pattern match the empty string: errors < len(query).
InitMatch ==
    /\ \/ /\ text \in SeqsUpTo(Chars, MaxTextLen)
          /\ query \in SeqsUpTo(QueryChars, MaxQueryLen)
          /\ fuzzy_config \in {-1} \cup {e \in 0..MaxEdits : e = 0 \/ e < Len(query)}
       \/ /\ text = TumorText
          /\ query = TumorQuery
          /\ fuzzy_config \in {-1} \cup 0..MaxEdits
    /\ scan_pos = 0
    /\ matches = <<>>
    /\ match_pc = "called"
    /\ PostOff
    /\ dispatcher = 1
    /\ max_parallel_requests = 1
    /\ Construct(<<>>, FALSE, FALSE)
    /\ notes = <<>>
    /\ cursor = 1
    /\ pc = "pull"
    /\ pending_tasks = {}
    /\ done = {}
    /\ yielded = <<>>
    /\ task_state = <<>>
    /\ completion = <<>>
    /\ wait_log = <<>>
    /\ CtorDone
    /\ BridgeOff
    /\ NoteIdle

matchOthers == <<configVars, ledger, batchVars, taskVars, historyVars, ctorVars,
                 bridgeVars, postVars, dispatcher, noteConfig, retryVars, kinds,
                 cancel_sent, noteVars>>

\* if not query: return []
FindEmptyQuery ==
    /\ match_pc = "called"
    /\ query = <<>>
    /\ match_pc' = "returned"
    /\ UNCHANGED <<text, query, fuzzy_config, scan_pos, matches, matchOthers>>

\* The pattern is compiled and regex.finditer starts at the text's beginning.
FindStart ==
    /\ match_pc = "called"
    /\ query # <<>>
    /\ match_pc' = "scanning"
    /\ UNCHANGED <<text, query, fuzzy_config, scan_pos, matches, matchOthers>>

\* for match in regex.finditer(...): matches.append(...)
FindNext ==
    /\ match_pc = "scanning"
    /\ LET edits == FuzzyErrors(query, fuzzy_config)
           starts == MatchStarts(text, query, edits, scan_pos)
       IN  /\ starts # {}
           /\ \E end \in MatchEnds(text, query, edits, LeastOf(starts)) :
                  /\ matches' = Append(matches, [start |-> LeastOf(starts), end |-> end])
                  /\ scan_pos' = end
    /\ UNCHANGED <<text, query, fuzzy_config, match_pc, matchOthers>>

\* finditer is exhausted: the matches are sorted and returned.
FindReturn ==
    /\ match_pc = "scanning"
    /\ MatchStarts(text, query, FuzzyErrors(query, fuzzy_config), scan_pos) = {}
    /\ matches' = SortByKey(matches, query)
    /\ match_pc' = "returned"
    /\ UNCHANGED <<text, query, fuzzy_config, scan_pos, matchOthers>>

NextMatch == FindEmptyQuery \/ FindStart \/ FindNext \/ FindReturn

SpecMatch == InitMatch /\ [][NextMatch]_vars

\* C25: when find_matches returns several matches, they are in the order of
\* increasing absolute difference between the match's length and the
\* query's length, and matches of the same difference are in the order of
\* their start positions.
C25_OrderedByLengthThenStart ==
    match_pc = "returned" =>
        \A i, j \in 1..Len(matches) :
            i < j =>
                \/ SortKey(matches[i], query) < SortKey(matches[j], query)
                \/ /\ SortKey(matches[i], query) = SortKey(matches[j], query)
                   /\ matches[i].start < matches[j].start

\* Three matches are returned; the sort has moved a later match to the
\* front, and two matches of the same difference follow it.
C25_Witness ==
    /\ match_pc = "returned"
    /\ Len(matches) = 3
    /\ matches[1].start > matches[2].start
    /\ SortKey(matches[2], query) = SortKey(matches[3], query)

\* C26: searching the text "tumor size 25mm" for "tumor siz 25mm" returns
\* no match when no edit is allowed, and when at least one edit is allowed
\* (two by default, the query being longer than ten characters) it returns
\* a match that begins where the text begins and reaches its end but for
\* the characters the further edits may drop: with one edit, all of it.
C26_TumorFoundIffEditsAllowed ==
    (match_pc = "returned" /\ text = TumorText /\ query = TumorQuery) =>
        LET allowed == IF fuzzy_config = -1 THEN DefaultErrors ELSE fuzzy_config
        IN  IF allowed = 0
            THEN matches = <<>>
            ELSE /\ matches # <<>>
                 /\ matches[1].start = 0
                 /\ matches[1].end >= Len(text) - (allowed - 1)

\* With one edit allowed the search has returned the whole text as its match.
C26_Witness ==
    /\ match_pc = "returned"
    /\ text = TumorText
    /\ query = TumorQuery
    /\ fuzzy_config = 1
    /\ matches = <<[start |-> 0, end |-> 15]>>

\* --------------------------------------------------- the chunk details
\* process_note over every setting of the four chunk-detail switches, with
\* clients that report usage and reasoning and clients that do not; the
\* document has the schema's two fields as its targets.
InitDetail ==
    /\ max_parallel_requests = 1
    /\ Construct(<<>>, FALSE, FALSE)
    /\ notes = <<>>
    /\ cursor = 1
    /\ pc = "pull"
    /\ pending_tasks = {}
    /\ done = {}
    /\ yielded = <<>>
    /\ task_state = <<>>
    /\ completion = <<>>
    /\ wait_log = <<>>
    /\ CtorDone
    /\ BridgeOff
    /\ MatchOff
    /\ PostOff
    /\ dispatcher = 1
    /\ schema_elements = <<"a", "b">>
    /\ element_names = <<>>
    /\ max_elements_per_request \in 1..MaxCap
    /\ max_retries \in 0..MaxRetries
    /\ include_chunk_details \in BOOLEAN
    /\ chunk_reasoning \in BOOLEAN
    /\ chunk_metrics \in BOOLEAN
    /\ include_raw_response \in BOOLEAN
    /\ client_usage \in BOOLEAN
    /\ client_reasoning \in BOOLEAN
    /\ note_pc = "idle"
    /\ chunks = <<>>
    /\ chunk_i = 0
    /\ attempts = 0
    /\ errors = <<>>
    /\ calls = 0
    /\ ok_calls = 0
    /\ sleeps = <<>>
    /\ kinds = <<>>
    /\ cancel_sent = FALSE
    /\ requests = <<>>
    /\ merged_extraction = EmptyMap
    /\ all_errors = <<>>
    /\ overall_success = TRUE
    /\ chunks_info = <<>>
    /\ output = <<>>

SpecDetail == InitDetail /\ [][NextNote]_vars

\* The chunk entries of a returned result whose request succeeded.
SucceededChunks == {k \in 1..Len(output.chunks) : output.chunks[k].success}

C28_EveryChunkRequested ==
    note_pc \in {"returned", "raised"} => Len(requests) = Len(chunks)

\* C29: in a returned result with chunk details, the entry of every chunk
\* whose request succeeded with a payload that did not parse has its
\* success flag false and carries the parse-error message, and the
\* document's success flag is the conjunction of its chunks' success flags.
C29_ParseFailureMarksChunkFailed ==
    (note_pc = "returned" /\ output.has_chunks) =>
        /\ \A k \in 1..Len(output.chunks) :
               (requests[k].success /\ ~JsonLoads(requests[k].payload)) =>
                   /\ ~output.chunks[k].success
                   /\ "error" \in output.chunks[k].keys
                   /\ output.chunks[k].error = <<[chunk |-> k, what |-> "parse"]>>
        /\ output.success <=> \A k \in 1..Len(output.chunks) : output.chunks[k].success

\* C30: a generation call that succeeds with a payload that cannot be parsed
\* ends its chunk: it is the chunk's only successful call and its last call,
\* and the chunk is recorded as failed with the parse error, in the chunk's
\* entry and in the document's error list.
C30_MalformedNotRetried ==
    \A k \in 1..Len(requests) :
        (requests[k].success /\ ~JsonLoads(requests[k].payload)) =>
            /\ requests[k].ok_calls = 1
            /\ requests[k].calls = Len(requests[k].errors) + 1
            /\ Len(chunks_info) >= k
            /\ chunks_info[k].error = <<[chunk |-> k, what |-> "parse"]>>
            /\ \E j \in 1..Len(all_errors) : all_errors[j] = [chunk |-> k, what |-> "parse"]

\* ------------------------------------------ the two kinds of failed attempt
\* process_note on a one-chunk document, with the kind of every failed
\* attempt of its requester call kept in kinds.
InitRetry ==
    /\ max_parallel_requests = 1
    /\ \E fo \in BOOLEAN : Construct(<<>>, fo, FALSE)
    /\ notes = <<>>
    /\ cursor = 1
    /\ pc = "pull"
    /\ pending_tasks = {}
    /\ done = {}
    /\ yielded = <<>>
    /\ task_state = <<>>
    /\ completion = <<>>
    /\ wait_log = <<>>
    /\ CtorDone
    /\ BridgeOff
    /\ MatchOff
    /\ PostOff
    /\ dispatcher = 1
    /\ schema_elements = <<"a">>
    /\ element_names = <<>>
    /\ max_elements_per_request = 0
    /\ max_retries \in 0..MaxRetries
    /\ DetailDefaults
    /\ note_pc = "idle"
    /\ chunks = <<>>
    /\ chunk_i = 0
    /\ attempts = 0
    /\ errors = <<>>
    /\ calls = 0
    /\ ok_calls = 0
    /\ sleeps = <<>>
    /\ kinds = <<>>
    /\ cancel_sent = FALSE
    /\ requests = <<>>
    /\ merged_extraction = EmptyMap
    /\ all_errors = <<>>
    /\ overall_success = TRUE
    /\ chunks_info = <<>>
    /\ output = <<>>

\* chat_completion returns {"success": False, "error": ...}: the else branch.
RetryClientFails ==
    AttemptFailed(FALSE) /\ kinds' = Append(kinds, "failure") /\ UNCHANGED cancel_sent

\* chat_completion raises an exception: the except branch.
RetryClientRaises ==
    AttemptFailed(TRUE) /\ kinds' = Append(kinds, "exception") /\ UNCHANGED cancel_sent

NextRetry ==
    \/ ProcessNote
    \/ \E p \in Payloads : ClientSucceeds(p)
    \/ RetryClientFails
    \/ RetryClientRaises
    \/ BackoffElapsed

SpecRetry == InitRetry /\ [][NextRetry]_vars

\* C31: whatever the kinds of the failed attempts of a requester call, each
\* of them has used one attempt and one generation call and has left one
\* error entry, the entries are labelled 1, 2, ... in the order of the
\* attempts, and each failed attempt but the last permitted one has been
\* followed by the same backoff delay: an attempt that raised is treated as
\* one that reported failure.
C31_ExceptionLikeFailure ==
    /\ attempts = Len(kinds)
    /\ calls = Len(kinds) + ok_calls
    /\ Len(errors) = Len(kinds)
    /\ \A k \in 1..Len(errors) : errors[k].attempt = k
    /\ sleeps = LinearDelays(Min(Len(kinds), max_retries))

\* A requester call has given up after an exception, a reported failure and
\* another exception.
C31_Witness ==
    /\ kinds = <<"exception", "failure", "exception">>
    /\ note_pc = "returned"
    /\ Len(requests) = 1
    /\ ~requests[1].success

\* ------------------------------------------------- a cancelled extraction
\* process_note on a document of two fields whose task may be cancelled, as
\* run_async_loop's `for p in pending: p.cancel()` does, while the task is
\* suspended in the generation call or in the backoff sleep.
InitCancel ==
    /\ max_parallel_requests = 1
    /\ \E fo \in BOOLEAN : Construct(<<>>, fo, FALSE)
    /\ notes = <<>>
    /\ cursor = 1
    /\ pc = "pull"
    /\ pending_tasks = {}
    /\ done = {}
    /\ yielded = <<>>
    /\ task_state = <<>>
    /\ completion = <<>>
    /\ wait_log = <<>>
    /\ CtorDone
    /\ BridgeOff
    /\ MatchOff
    /\ PostOff
    /\ dispatcher = 1
    /\ schema_elements = <<"a", "b">>
    /\ element_names = <<>>
    /\ max_elements_per_request \in 1..MaxCap
    /\ max_retries \in 0..MaxRetries
    /\ DetailDefaults
    /\ note_pc = "idle"
    /\ chunks = <<>>
    /\ chunk_i = 0
    /\ attempts = 0
    /\ errors = <<>>
    /\ calls = 0
    /\ ok_calls = 0
    /\ sleeps = <<>>
    /\ kinds = <<>>
    /\ cancel_sent = FALSE
    /\ requests = <<>>
    /\ merged_extraction = EmptyMap
    /\ all_errors = <<>>
    /\ overall_success = TRUE
    /\ chunks_info = <<>>
    /\ output = <<>>

ExceptCatches_Everything(e) == TRUE

\* `except Exception` catches the classes that derive from Exception;
\* asyncio.CancelledError derives from BaseException.
ExceptCatches(e) == e = "Exception"

\* CancelledError leaves _call_llm_with_retry and process_note; the
\* `async with` block gives the permit back on the way out.
CancelPropagates ==
    /\ note_pc' = "cancelled"
    /\ sem_value' = sem_value + 1
    /\ UNCHANGED <<retryVars, ledger, chunk_i, requests, merged_extraction,
                   all_errors, overall_success, chunks_info, output>>

\* The task is cancelled while it awaits chat_completion, inside the try.
CancelInCall ==
    /\ note_pc = "calling"
    /\ ~cancel_sent
    /\ cancel_sent' = TRUE
    /\ IF ExceptCatches("CancelledError")
       THEN AttemptFailed(TRUE)
       ELSE /\ CancelPropagates
            /\ UNCHANGED <<matchVars, postVars, dispatcher, configVars, ctorVars, bridgeVars, historyVars,
                           batchVars, task_state, noteConfig, chunks>>
    /\ UNCHANGED kinds

\* The task is cancelled while it awaits asyncio.sleep, outside the try.
CancelInBackoff ==
    /\ note_pc = "sleeping"
    /\ ~cancel_sent
    /\ cancel_sent' = TRUE
    /\ CancelPropagates
    /\ UNCHANGED <<matchVars, postVars, dispatcher, kinds, configVars, ctorVars, bridgeVars, historyVars,
                   batchVars, task_state, noteConfig, chunks>>

NextCancel ==
    \/ ProcessNote
    \/ \E p \in Payloads : ClientSucceeds(p)
    \/ ClientFails
    \/ ClientRaises
    \/ BackoffElapsed
    \/ CancelInCall
    \/ CancelInBackoff

SpecCancel == InitCancel /\ [][NextCancel]_vars

\* C32: from the moment the extraction's task is cancelled, in a generation
\* call or in a backoff delay, the extraction is over: the cancellation
\* leaves no error entry and uses no attempt, and no generation call, chunk
\* request or ledger record follows it.
C32_CancellationNotAbsorbed ==
    [][cancel_sent' =>
          /\ note_pc' = "cancelled"
          /\ UNCHANGED <<attempts, errors, calls, ok_calls, sleeps, requests, chunk_i,
                         all_errors, chunks_info, output, ledger>>]_vars

\* The task was cancelled in the first chunk of two after one failed
\* attempt, with a ledger file configured and nothing written to it.
C32_Witness ==
    /\ note_pc = "cancelled"
    /\ cancel_sent
    /\ file_output
    /\ Len(chunks) = 2
    /\ chunk_i = 1
    /\ attempts = 1
    /\ ledger = <<>>

(***************************************************************************)
(* _post_process_extraction on its own (SpecField).  A Python value of the *)
(* payload is a record tagged with its type (t): None, a string (s, its    *)
(* characters), a list of strings (items) or a number; a dict is a         *)
(* function from its keys to values and has no tag.                        *)
(***************************************************************************)

MaxSnippets == 2      \* most evidence snippets in one "grounding" list

None == [t |-> "none"]
Str(chars) == [t |-> "str", s |-> chars]
List(items) == [t |-> "list", items |-> items]
Num == [t |-> "num"]

\* isinstance(v, dict)
IsDict(v) == "t" \notin DOMAIN v

\* The Python truth of a value.
PyTruth(v) ==
    IF IsDict(v) THEN DOMAIN v # {}
    ELSE CASE v.t = "none" -> FALSE
           [] v.t = "str" -> v.s # <<>>
           [] v.t = "list" -> v.items # <<>>
           [] v.t = "num" -> TRUE

\* d.get(k)
Get(d, k) == IF k \in DOMAIN d THEN d[k] ELSE None

NoteText == <<"a", "b", "a">>
Snippets == {Str(<<"a">>), Str(<<"b", "b">>)}

\* The values the payload may hold under each key of a field's object.
ValuesOf(k) ==
    CASE k = "answer" -> {Str(<<"a">>), None}
      [] k = "value" -> {Str(<<"b", "b">>)}
      [] k = "reasoning" -> {None, Str(<<>>), Str(<<"a">>)}
      [] k = "grounding" -> {None, Str(<<>>), Num} \cup Snippets
                              \cup {List(l) : l \in SeqsUpTo(Snippets, MaxSnippets)}

\* The payload's value for a field: a bare string, or an object.
RawVals ==
    {Str(<<"a">>)}
    \cup UNION {{d \in [K -> UNION {ValuesOf(k) : k \in K}] :
                    \A k \in K : d[k] \in ValuesOf(k)} :
                K \in SUBSET {"answer", "value", "reasoning", "grounding"}}

\* `isinstance(raw_val, dict) and ("answer" in raw_val or "value" in raw_val)`
HoldsAnswer(raw_val) ==
    IsDict(raw_val) /\ ("answer" \in DOMAIN raw_val \/ "value" \in DOMAIN raw_val)

\* answer = raw_val.get("answer", raw_val.get("value")), else raw_val itself
AnswerOf(raw_val) ==
    IF HoldsAnswer(raw_val)
    THEN IF "answer" \in DOMAIN raw_val THEN raw_val["answer"] ELSE Get(raw_val, "value")
    ELSE raw_val

\* reasoning = raw_val.get("reasoning"), else None
ReasoningOf(raw_val) == IF HoldsAnswer(raw_val) THEN Get(raw_val, "reasoning") ELSE None

\* grounding_text = raw_val.get("grounding"), else None
GroundingOf(raw_val) == IF HoldsAnswer(raw_val) THEN Get(raw_val, "grounding") ELSE None

\* find_matches without fuzzy_config for a snippet of at most LongQuery
\* characters: the occurrences of the snippet, from left to right.
RECURSIVE Occurrences(_, _, _)
Occurrences(t, q, pos) ==
    LET starts == MatchStarts(t, q, 0, pos)
    IN  IF starts = {} THEN <<>>
        ELSE <<[start |-> LeastOf(starts), end |-> LeastOf(starts) + Len(q)]>>
             \o Occurrences(t, q, LeastOf(starts) + Len(q))

\* anchors = [{"start", "end"} for m in matches] if matches else []
Anchors(t, snippet) ==
    IF snippet.s = <<>> THEN <<>> ELSE SortByKey(Occurrences(t, snippet.s, 0), snippet.s)

\* `for text_snippet in grounding_text` raises TypeError on a number.
GroundingRaises(el_def, raw_val) ==
    el_def.grounding /\ PyTruth(GroundingOf(raw_val)) /\ GroundingOf(raw_val).t = "num"

\* grounding_result: a string is taken as the list of that one string.
GroundingResult(t, grounding_text) ==
    LET snippets == IF grounding_text.t = "str" THEN <<grounding_text>>
                    ELSE grounding_text.items
    IN  [k \in 1..Len(snippets) |-> [text |-> snippets[k], anchors |-> Anchors(t, snippets[k])]]

WithReasoning_Unasked(el_def, raw_val) == PyTruth(ReasoningOf(raw_val))

\* `if el_def.reasoning and reasoning:`
WithReasoning(el_def, raw_val) == el_def.reasoning /\ PyTruth(ReasoningOf(raw_val))

\* `if el_def.grounding and grounding_text:`
WithGrounding(el_def, raw_val) == el_def.grounding /\ PyTruth(GroundingOf(raw_val))

\* item_output for one field
ItemOutput(t, el_def, raw_val) ==
    LET keys == {"answer"}
                \cup (IF WithReasoning(el_def, raw_val) THEN {"reasoning"} ELSE {})
                \cup (IF WithGrounding(el_def, raw_val) THEN {"grounding"} ELSE {})
    IN  [k \in keys |->
            CASE k = "answer" -> AnswerOf(raw_val)
              [] k = "reasoning" -> ReasoningOf(raw_val)
              [] k = "grounding" -> GroundingResult(t, GroundingOf(raw_val))]

\* target_elements = element_names if element_names else list(schema.elements.keys())
PostTargets(names, schema) == IF names # <<>> THEN Range(names) ELSE DOMAIN schema

\* The fields that get an entry: `if not el_def: continue`,
\* `if el_name in raw_extraction:`
PostFields(raw, names, schema) ==
    (PostTargets(names, schema) \cap DOMAIN schema) \cap DOMAIN raw

InitField ==
    /\ text = NoteText
    /\ query = <<>>
    /\ fuzzy_config = -1
    /\ scan_pos = 0
    /\ matches = <<>>
    /\ match_pc = "off"
    /\ \E ra \in RawVals \cup {None}, hasb \in BOOLEAN :
          raw_extraction = [f \in (IF ra = None THEN {} ELSE {"a"})
                                   \cup (IF hasb THEN {"b"} ELSE {}) |->
                               IF f = "a" THEN ra ELSE Str(<<"a">>)]
    /\ post_names \in SeqsUpTo(Fields, 1)
    /\ \E D \in SUBSET Fields, r \in BOOLEAN, g \in BOOLEAN :
          post_schema = [f \in D |-> IF f = "a" THEN [reasoning |-> r, grounding |-> g]
                                     ELSE [reasoning |-> FALSE, grounding |-> FALSE]]
    /\ processed_extraction = EmptyMap
    /\ post_pc = "called"
    /\ dispatcher = 1
    /\ max_parallel_requests = 1
    /\ Construct(<<>>, FALSE, FALSE)
    /\ notes = <<>>
    /\ cursor = 1
    /\ pc = "pull"
    /\ pending_tasks = {}
    /\ done = {}
    /\ yielded = <<>>
    /\ task_state = <<>>
    /\ completion = <<>>
    /\ wait_log = <<>>
    /\ CtorDone
    /\ BridgeOff
    /\ NoteIdle

postOthers == <<matchVars, configVars, ledger, batchVars, taskVars, historyVars, ctorVars,
                bridgeVars, dispatcher, noteConfig, retryVars, kinds, cancel_sent, noteVars>>

\* _post_process_extraction runs to its return.
PostProcessReturns ==
    /\ post_pc = "called"
    /\ LET fields == PostFields(raw_extraction, post_names, post_schema)
       IN  /\ \A f \in fields : ~GroundingRaises(post_schema[f], raw_extraction[f])
           /\ processed_extraction' =
                  [f \in fields |-> ItemOutput(text, post_schema[f], raw_extraction[f])]
    /\ post_pc' = "returned"
    /\ UNCHANGED <<raw_extraction, post_names, post_schema, postOthers>>

\* A field's "grounding" is a number: the loop over it raises TypeError.
PostProcessRaisesError ==
    /\ post_pc = "called"
    /\ \E f \in PostFields(raw_extraction, post_names, post_schema) :
           GroundingRaises(post_schema[f], raw_extraction[f])
    /\ post_pc' = "raised"
    /\ UNCHANGED <<raw_extraction, post_names, post_schema, processed_extraction, postOthers>>

NextField == PostProcessReturns \/ PostProcessRaisesError

SpecField == InitField /\ [][NextField]_vars

\* C33: every entry of the returned extraction is for a field that was a
\* target, is in the parsed payload and is defined by the schema; its answer
\* is the payload's value, or the answer member (else the value member) of a
\* payload object that holds one of those keys; it has reasoning only if the
\* field's schema asks for reasoning and the payload supplied some, and
\* grounding only if the schema asks for grounding and the payload supplied
\* evidence text.
C33_FieldResultCanonical ==
    post_pc = "returned" =>
        \A f \in DOMAIN processed_extraction :
            LET item == processed_extraction[f]
                raw_val == raw_extraction[f]
                object == IsDict(raw_val) /\ {"answer", "value"} \cap DOMAIN raw_val # {}
            IN  /\ f \in PostTargets(post_names, post_schema)
                /\ f \in DOMAIN raw_extraction
                /\ f \in DOMAIN post_schema
                /\ item["answer"] = IF ~object THEN raw_val
                                    ELSE IF "answer" \in DOMAIN raw_val THEN raw_val["answer"]
                                    ELSE raw_val["value"]
                /\ "reasoning" \in DOMAIN item =>
                       /\ post_schema[f].reasoning
                       /\ object
                       /\ "reasoning" \in DOMAIN raw_val
                       /\ raw_val["reasoning"] \notin {None, Str(<<>>)}
                       /\ item["reasoning"] = raw_val["reasoning"]
                /\ "grounding" \in DOMAIN item =>
                       /\ post_schema[f].grounding
                       /\ object
                       /\ "grounding" \in DOMAIN raw_val
                       /\ raw_val["grounding"] \notin {None, Str(<<>>), List(<<>>)}

\* A field whose schema asks for neither reasoning nor grounding came back
\* from a payload object that supplied an answer, a reasoning and evidence:
\* its entry is the answer alone.
C33_Witness ==
    /\ post_pc = "returned"
    /\ "a" \in DOMAIN processed_extraction
    /\ DOMAIN processed_extraction["a"] = {"answer"}
    /\ {"value", "reasoning", "grounding"} \subseteq DOMAIN raw_extraction["a"]
    /\ "answer" \notin DOMAIN raw_extraction["a"]
    /\ processed_extraction["a"]["answer"] = Str(<<"b", "b">>)
    /\ raw_extraction["a"]["reasoning"] = Str(<<"a">>)
    /\ raw_extraction["a"]["grounding"] = List(<<Str(<<"a">>)>>)

\* C34: the back-pressure threshold is the fixed value 2C: right after it
\* has submitted a task, process_batch waits for a completion if and only
\* if at least 2 * max_parallel_requests tasks are outstanding, whatever the
\* number of permits held at that moment.
C34_FixedThreshold ==
    [][(pc = "pull" /\ pending_tasks' # pending_tasks) =>
          (pc' = "wait" <=> Cardinality(pending_tasks') >= 2 * max_parallel_requests)]_vars

\* ------------------------------------------------ a later dispatcher
\* process_note on one document by a first dispatcher and then, once that
\* call is over, a dispatcher constructed with overwrite off on what the
\* first left in the ledger file, whose process_batch is given the same
\* document again.
InitRerun ==
    /\ max_parallel_requests = 1
    /\ \E fo \in BOOLEAN : Construct(<<>>, fo, FALSE)
    /\ notes = <<NoteId>>
    /\ cursor = 1
    /\ pc = "pull"
    /\ pending_tasks = {}
    /\ done = {}
    /\ yielded = <<>>
    /\ task_state = <<"none">>
    /\ completion = <<>>
    /\ wait_log = <<>>
    /\ CtorDone
    /\ BridgeOff
    /\ MatchOff
    /\ PostOff
    /\ dispatcher = 1
    /\ schema_elements = <<"a", "b">>
    /\ element_names = <<>>
    /\ max_elements_per_request \in 1..MaxCap
    /\ max_retries \in 0..MaxRetries
    /\ DetailDefaults
    /\ note_pc = "idle"
    /\ chunks = <<>>
    /\ chunk_i = 0
    /\ attempts = 0
    /\ errors = <<>>
    /\ calls = 0
    /\ ok_calls = 0
    /\ sleeps = <<>>
    /\ kinds = <<>>
    /\ cancel_sent = FALSE
    /\ requests = <<>>
    /\ merged_extraction = EmptyMap
    /\ all_errors = <<>>
    /\ overall_success = TRUE
    /\ chunks_info = <<>>
    /\ output = <<>>

\* BatchProcessor.__init__ of the later dispatcher, overwrite=False: the ids
\* of the file are loaded and the semaphore is new.
Reconstruct ==
    /\ dispatcher = 1
    /\ note_pc \in {"returned", "raised"}
    /\ dispatcher' = 2
    /\ completed_ids' = IF file_output THEN LoadCompletedIds(ledger) ELSE {}
    /\ sem_value' = SemaphoreInit(max_parallel_requests)
    /\ UNCHANGED <<matchVars, postVars, max_parallel_requests, file_output, ctorVars,
                   bridgeVars, historyVars, ledger, batchVars, task_state, noteConfig,
                   retryVars, kinds, cancel_sent, chunks, chunk_i, requests,
                   merged_extraction, all_errors, overall_success, chunks_info, output,
                   note_pc>>

\* process_batch of the later dispatcher and its tasks.
Redispatch ==
    /\ dispatcher = 2
    /\ \/ PullSkip
       \/ PullSubmit
       \/ PullEnd
       \/ WaitFirstCompleted
       \/ YieldResult
       \/ YieldRaises
       \/ \E t \in Tasks : TaskAcquire(t)
       \/ \E t \in Tasks : TaskCall(t)
       \/ \E t \in Tasks : TaskCallEnds(t)
       \/ \E t \in Tasks : TaskReturn(t)
       \/ \E t \in Tasks : TaskRaise(t)

NextRerun ==
    \/ ProcessNote
    \/ \E p \in Payloads : ClientSucceeds(p)
    \/ ClientFails
    \/ ClientRaises
    \/ BackoffElapsed
    \/ Reconstruct
    \/ Redispatch

SpecRerun == InitRerun /\ [][NextRerun]_vars

\* C35: with a ledger file in use, a document whose extraction has returned
\* has its record in the ledger whether its success flag is true or false,
\* and a later dispatcher constructed on that ledger with overwrite off
\* skips the document when it is dispatched again: no task is created for
\* it, no generation call is made, nothing is yielded, nothing is written.
C35_FailedDocumentIsSkippedLater ==
    (file_output /\ note_pc = "returned") =>
        /\ ledger = <<Record(NoteId, 1)>>
        /\ dispatcher = 2 =>
               /\ NoteId \in completed_ids
               /\ task_state = <<"none">>
               /\ pending_tasks = {}
               /\ yielded = <<>>

\* The later dispatcher has gone through the whole input, which is the one
\* document whose extraction had ended with success = false.
C35_Witness ==
    /\ file_output
    /\ note_pc = "returned"
    /\ ~output.success
    /\ dispatcher = 2
    /\ pc = "finished"
    /\ cursor = 2

\* C36: permits are conserved: in every state the free permits and the
\* extractions inside `async with self.semaphore` add up to C, so that an
\* extraction that returned, raised or was cancelled, while waiting for a
\* permit or while holding one, has left no permit behind.
C36_PermitsConserved == sem_value + Cardinality(Holders) = max_parallel_requests

\* The bridge's thread has ended after one extraction raised and the other
\* was cancelled by the teardown: the only permit is free.
C36_Witness ==
    /\ bg_pc = "dead"
    /\ max_parallel_requests = 1
    /\ \E t, u \in Tasks : task_state[t] = "raised" /\ task_state[u] = "cancelled"
    /\ sem_value = 1

\* ------------------------------------------- the consumer closes the generator
\* process_batch_sync with a caller that may stop iterating: the generator
\* is closed while suspended at `yield payload`, which raises GeneratorExit
\* there.  `except KeyboardInterrupt` does not catch it and the try has no
\* finally clause: neither stop_event.set() nor t.join() is run.  (After an
\* item the consumer's position is "polling" in this model, whether or not
\* the caller has resumed the generator.)
ConsumerClose ==
    /\ cons_pc = "polling"
    /\ received # <<>>
    /\ cons_pc' = "closed"
    /\ UNCHANGED <<matchVars, postVars, dispatcher, kinds, cancel_sent, configVars, ctorVars,
                   historyVars, ledger, batchVars, taskVars, stop_event, result_queue,
                   handed, bg_pc, received, noteConfig, retryVars, noteVars>>

NextClose == NextSync \/ ConsumerClose

SpecClose == InitSync /\ [][NextClose]_vars

\* C37: once the consumer has stopped iterating process_batch_sync before
\* the end, without an interrupt, the stop event is set.
C37_CloseSetsStop == cons_pc = "closed" => stop_event

\* C38: in every run of the background context, a message is put on the
\* hand-off queue only while async_wrapper is running; the "done" message is
\* put exactly when async_wrapper ends, so there is one and nothing is put
\* after it; "error" is put only while iterating and leads to the finally
\* clause, where only "done" follows, so there is at most one, before
\* "done", and no "item" after it; an "item" is put only while iterating
\* with the stop event found unset.  The background context never goes
\* back to an earlier position.
C38_DoneIsLastOnce ==
    [][LET put == Len(result_queue') = Len(result_queue) + 1
           type == result_queue'[Len(result_queue')].type
           Rank(p) == CASE p = "iterating" -> 1
                        [] p = "finishing" -> 2
                        [] p = "teardown" -> 3
                        [] p = "gathering" -> 4
                        [] p = "dead" -> 5
           over == Rank(bg_pc) >= 3
       IN  /\ Rank(bg_pc') >= Rank(bg_pc)
           /\ Len(result_queue') <= Len(result_queue) + 1
           /\ put => /\ ~over
                     /\ type \in {"item", "error", "done"}
                     /\ (type = "done") <=> (bg_pc' = "teardown")
                     /\ type = "error" => bg_pc = "iterating" /\ bg_pc' = "finishing"
                     /\ type = "item" => bg_pc = "iterating" /\ bg_pc' = "iterating"
                                         /\ ~stop_event
           /\ (~over /\ Rank(bg_pc') >= 3) => put /\ type = "done" /\ bg_pc' = "teardown"
      ]_vars

\* The background thread has ended after a result and a failure, with the
\* consumer not having read anything: the queue holds the item, the error
\* and the final "done".
C38_Witness ==
    /\ bg_pc = "dead"
    /\ Len(result_queue) = 3
    /\ result_queue[1].type = "item"
    /\ result_queue[2] = Msg("error", 0)
    /\ result_queue[3] = Msg("done", 0)

====
